---- MODULE Spec2Model ----
(***************************************************************************)
(* Model of the AI dispatch layer of the clipboard manager (AIService):    *)
(* the provider gateway (makeRequest), the fallback orchestrator           *)
(* (chatCompletion) and the feature operations built on them.              *)
(*                                                                         *)
(* JavaScript runs each handler to completion: between two awaits on real  *)
(* I/O (an HTTP response, a timer) nothing else can run.  An action of the *)
(* model is therefore one such run: from a call, a response, a transport   *)
(* error or a timer, up to the next HTTP request in flight, the next timer *)
(* scheduled, or the settlement of the operation's promise.                *)
(*                                                                         *)
(* Texts are sequences of one-character strings.  A prompt handed to       *)
(* chatCompletion is represented by its length, the only thing the         *)
(* orchestrator reads of it.                                               *)
(***************************************************************************)
EXTENDS Integers, Sequences, FiniteSets, TLC

VARIABLES
  openaiApiKey,   \* this.openaiApiKey
  groqApiKey,     \* this.groqApiKey
  op,             \* the caller-facing operation whose promise is being settled
  chat,           \* the chatCompletion frame awaiting makeRequest, if any
  req,            \* the makeRequest chain: request in flight or retry timer
  result,         \* the settlement of the operation's promise
  obs,            \* observations of the current operation (history variables)
  other,          \* a second, independent call running at the same time
  clipboardHistory,   \* main.js: the history, newest item first
  history,            \* renderer.js: the window's copy of the history
  inbox,              \* 'history-updated' messages on their way to the window
  isMonitoring,       \* main.js: isMonitoring
  monitoringInterval, \* main.js: TRUE while the polling timer is set
  isPrivateMode,      \* main.js: isPrivateMode
  settings,           \* main.js: settings
  lastClipboardText,  \* main.js: lastClipboardText
  clipboard,          \* the text on the system clipboard
  disk,               \* the files of the user-data directory
  pending,            \* addToHistory calls suspended at an await
  copies,             \* texts the user has copied so far
  clicks,             \* clicks on rows, switches and Clear History so far
  now,                \* Date.now(), as a count of milliseconds
  chatAssistant,      \* chat-assistant.js: the ChatAssistant object and the closure of its timer
  tasks,              \* detections of the chat assistant suspended at an await
  seen,               \* observations of the chat assistant (history variable)
  handler             \* the AI handler of main.js that has set the keys and is about to call

\* the state of the main process and of its window
assistantVars == <<chatAssistant, tasks, seen, handler>>

mainVars == <<clipboardHistory, history, inbox, isMonitoring, monitoringInterval,
              isPrivateMode, settings, lastClipboardText, clipboard, disk,
              pending, copies, clicks, now, assistantVars>>

vars == <<openaiApiKey, groqApiKey, op, chat, req, result, obs, other, mainVars>>

----------------------------------------------------------------------------
(* Program constants *)

MAX_TEXT_LENGTH == 12000
MAX_INPUT_LENGTH == 8000
MAX_CATEGORIZE_LENGTH == 1000
MAX_SEARCH_ITEMS == 10
MAX_SEARCH_ITEM_LENGTH == 200
maxRetries == 3
MaxRequestTokens == 4000
MaxQueryLength == 500
MaxEmbeddingQueryLength == 1000
MaxRankingTokens == 2000
RankingPromptFixedLength == 149
BackoffBaseMs == 1000
MaxReplyMessages == 5              \* .slice(0, 5)
MaxContextLength == 500            \* truncateText(context, 500)
MaxReplyTokens == 3000             \* estimateTokens(prompt) > 3000
\* lengths of the fixed parts of the prompts
CleanPromptLength == 37            \* 'Clean and format the following text. '
LineBreaksPromptLength == 53
FormatJSONPromptLength == 76
TonePromptFixedLength == 29        \* `Rewrite the text in a ${rewriteTone} tone. `
ReformatPromptLength == 42
ImportantPromptLength == 244
TextSeparatorLength == 8           \* '\n\nText:\n'
ReplyPromptFixedLength == 129
ContextLabelLength == 9            \* 'Context: '
MessageLabelLength == 11           \* `Message ${i + 1}: `
MessageSeparatorLength == 2        \* '\n\n'

(* Bounds of the model *)

\* number of messages of a direct chatCompletion call
MaxMessages == 2
\* number of items of a batchCategorize call
MaxItems == 2
\* pieces in a text given to fallbackCategorize alone
MaxFragments == 2
\* dimension of the vectors given to cosineSimilarity alone
MaxDim == 2
\* largest maxLength given to truncateText alone
MaxCut == 4

----------------------------------------------------------------------------
(* JavaScript values *)

NULL == "<null>"
Truthy(v) == v # NULL /\ v # ""

Providers == {"groq", "openai"}

\* what a credential setter may be given: null, the empty string, a secret
KeyValues == {NULL, "", "sk-1"}

StringValue(chars) == [type |-> "string", chars |-> chars]
NullValue == [type |-> "null", chars |-> <<>>]

RECURSIVE Sum(_)
Sum(s) == IF s = <<>> THEN 0 ELSE Head(s) + Sum(Tail(s))

RECURSIVE Pow2(_)
Pow2(n) == IF n = 0 THEN 1 ELSE 2 * Pow2(n - 1)

----------------------------------------------------------------------------
(* Strings: sequences of one-character strings *)

length(text) == Len(text)

\* text.includes(pattern)
includes(text, pattern) ==
  \/ pattern = <<>>
  \/ \E i \in 1..(Len(text) - Len(pattern) + 1) :
       /\ text[i] = pattern[1]
       /\ SubSeq(text, i, i + Len(pattern) - 1) = pattern

\* text.startsWith(pattern)
startsWith(text, pattern) ==
  Len(pattern) <= Len(text) /\ SubSeq(text, 1, Len(pattern)) = pattern

\* text.substring(0, n)
substring(text, n) == SubSeq(text, 1, IF n < Len(text) THEN n ELSE Len(text))

WhiteSpace == {" ", "\n", "\t"}
Digits == {"0", "1", "2", "3", "4", "5", "6", "7", "8", "9"}

RECURSIVE trimStart(_)
trimStart(text) ==
  IF text # <<>> /\ Head(text) \in WhiteSpace THEN trimStart(Tail(text)) ELSE text

RECURSIVE trimEnd(_)
trimEnd(text) ==
  IF text # <<>> /\ text[Len(text)] \in WhiteSpace
    THEN trimEnd(SubSeq(text, 1, Len(text) - 1))
    ELSE text

\* text.trim()
trim(text) == trimEnd(trimStart(text))

UpperCase == <<"A", "B", "C", "D", "E", "F", "G", "H", "I", "J", "K", "L", "M", "N", "O", "P", "Q", "R", "S", "T", "U", "V", "W", "X", "Y", "Z">>
LowerCase == <<"a", "b", "c", "d", "e", "f", "g", "h", "i", "j", "k", "l", "m", "n", "o", "p", "q", "r", "s", "t", "u", "v", "w", "x", "y", "z">>

lowerChar(c) ==
  IF \E i \in 1..Len(UpperCase) : UpperCase[i] = c
    THEN LowerCase[CHOOSE i \in 1..Len(UpperCase) : UpperCase[i] = c]
    ELSE c

\* text.toLowerCase()
toLowerCase(text) == [i \in 1..Len(text) |-> lowerChar(text[i])]

\* n copies of the character c
Repeat(c, n) == [i \in 1..n |-> c]

Ellipsis == <<".", ".", ".">>

\* truncateText appending the marker to every text
truncateTextAlwaysMarked(text, maxLength) ==
  IF text = <<>> THEN text ELSE substring(text, maxLength) \o Ellipsis

\* truncateText
truncateText(text, maxLength) ==
  IF text = <<>> \/ Len(text) <= maxLength
    THEN text
    ELSE substring(text, maxLength) \o Ellipsis

\* isTextTooLarge
isTextTooLarge(text, maxLength) == text # <<>> /\ Len(text) > maxLength

\* truncateText and isTextTooLarge on a text known by its length only
truncatedLength(len, maxLength) ==
  IF len = 0 \/ len <= maxLength THEN len ELSE maxLength + Len(Ellipsis)
isLengthTooLarge(len, maxLength) == len # 0 /\ len > maxLength

----------------------------------------------------------------------------
(* Errors.  The code classifies an error by the substrings of its message;  *)
(* a message is represented by the set of those substrings it contains     *)
(* (marks), the number N of its "try again in Ns" as written (<<>>: none)  *)
(* and an identifier keeping distinct messages distinct.                   *)

Marks == {"rate limit", "Rate limit", "TPM", "tokens per minute",
          "too large", "Requested", "try again in"}

Message(id, marks, wait) == [id |-> id, marks |-> marks, wait |-> wait]

Includes(message, needle) == needle \in message.marks

Error(name, message, source) == [name |-> name, message |-> message, source |-> source]
NoError == Error("none", Message("", {}, <<>>), "")

\* messages a provider may put in json.error.message
RateLimitWaitMessage ==
  Message("Rate limit reached ... tokens per minute (TPM): Limit 6000, Requested 7000. Please try again in 2.5s.",
          {"Rate limit", "TPM", "tokens per minute", "Requested", "try again in"},
          <<"2", ".", "5">>)
\* the provider advises to retry at once
RateLimitZeroWaitMessage ==
  Message("Rate limit reached for requests. Please try again in 0s.",
          {"Rate limit", "try again in"}, <<"0">>)
RateLimitPlainMessage ==
  Message("You exceeded the rate limit", {"rate limit"}, <<>>)
ProviderTooLargeMessage ==
  Message("Request too large for model ... (TPM): Limit 6000, Requested 9000",
          {"too large", "TPM", "Requested"}, <<>>)
InvalidKeyMessage ==
  Message("Incorrect API key provided", {}, <<>>)
\* json.error carries no message
AbsentMessage == Message("", {}, <<>>)

ProviderMessages ==
  {RateLimitWaitMessage, RateLimitZeroWaitMessage, RateLimitPlainMessage,
   ProviderTooLargeMessage, InvalidKeyMessage, AbsentMessage}

ApiErrorMessage(m) == IF m = AbsentMessage THEN Message("API error", {}, <<>>) ELSE m

MissingKeyError(provider) ==
  Error("Error",
        Message(IF provider = "groq" THEN "Groq API key not set." ELSE "OpenAI API key not set.", {}, <<>>),
        provider)
ParseError(provider) == Error("Error", Message("Failed to parse AI response", {}, <<>>), provider)
TransportError(provider) == Error("Error", Message("socket hang up", {}, <<>>), provider)
TooLargeError(tokens) ==
  Error("Error", Message("Request too large (estimated N tokens, max ~4000). Please reduce text size.",
                         {"too large"}, <<>>), "chatCompletion")
\* skipLargeTextError(text, operation)
skipLargeTextError(operation) ==
  Error("Error", Message("Text is too large for OPERATION (N chars, max 12000). Please use shorter text or split it into smaller parts.",
                         {"too large"}, <<>>), operation)
MessagesTooLargeError ==
  Error("Error", Message("Messages are too large. Please use shorter messages or fewer messages.",
                         {"too large"}, <<>>), "generateReply")
\* result.trim() on a content that is no string
TrimError(provider) ==
  Error("TypeError", Message("Cannot read properties of null (reading 'trim')", {}, <<>>), provider)
ShapeError(provider) ==
  Error("TypeError", Message("Cannot read properties of undefined", {}, <<>>), provider)

----------------------------------------------------------------------------
(* Budget estimator *)

\* estimateTokens, on the length of the text
estimateTokens(len) == IF len = 0 THEN 0 ELSE (len + 3) \div 4

\* isRateLimitError, on the error's message
isRateLimitError(message) ==
  \/ Includes(message, "rate limit")
  \/ Includes(message, "Rate limit")
  \/ Includes(message, "TPM")
  \/ Includes(message, "tokens per minute")

DigitValue(c) == CHOOSE d \in 0..9 : <<"0", "1", "2", "3", "4", "5", "6", "7", "8", "9">>[d + 1] = c

\* the longest prefix of text made of digits
RECURSIVE digitsPrefix(_)
digitsPrefix(text) ==
  IF text = <<>> \/ Head(text) \notin Digits THEN <<>>
  ELSE <<Head(text)>> \o digitsPrefix(Tail(text))

RECURSIVE DecimalValue(_)
DecimalValue(digits) ==
  IF digits = <<>> THEN 0
  ELSE 10 * DecimalValue(SubSeq(digits, 1, Len(digits) - 1)) + DigitValue(digits[Len(digits)])

RECURSIVE Pow10(_)
Pow10(n) == IF n = 0 THEN 1 ELSE 10 * Pow10(n - 1)

\* Math.ceil(parseFloat(text) * 1000) for a text of digits and dots: parseFloat
\* reads digits, one dot and digits, and stops there; -1 stands for NaN, the
\* value of a text that begins with no number
ceilMilliseconds(text) ==
  LET whole == digitsPrefix(text)
      rest == SubSeq(text, Len(whole) + 1, Len(text))
      fraction == IF rest # <<>> /\ Head(rest) = "." THEN digitsPrefix(Tail(rest)) ELSE <<>>
      thousandths == DecimalValue(fraction) * 1000
      scale == Pow10(Len(fraction))
  IN
  IF whole = <<>> /\ fraction = <<>> THEN -1
  ELSE DecimalValue(whole) * 1000 + (thousandths + scale - 1) \div scale

\* extractWaitTime: milliseconds, or -1 for null and for NaN (both are falsy)
extractWaitTime(message) ==
  IF Includes(message, "try again in") /\ message.wait # <<>>
    THEN ceilMilliseconds(message.wait)
    ELSE -1

\* extractWaitTime(...) || 1000 * Math.pow(2, retryCount): null and 0 are falsy
RetryWaitTime(message, retryCount) ==
  LET parsed == extractWaitTime(message) IN
  IF parsed > 0 THEN parsed ELSE BackoffBaseMs * Pow2(retryCount)

----------------------------------------------------------------------------
(* Categorization *)

categories == <<"code", "email", "link", "note", "password", "number", "command", "json", "xml", "html", "other">>

Labels == {categories[i] : i \in 1..Len(categories)}

\* the characters of a category name
LabelText(label) ==
  CASE label = "code" -> <<"c", "o", "d", "e">>
    [] label = "email" -> <<"e", "m", "a", "i", "l">>
    [] label = "link" -> <<"l", "i", "n", "k">>
    [] label = "note" -> <<"n", "o", "t", "e">>
    [] label = "password" -> <<"p", "a", "s", "s", "w", "o", "r", "d">>
    [] label = "number" -> <<"n", "u", "m", "b", "e", "r">>
    [] label = "command" -> <<"c", "o", "m", "m", "a", "n", "d">>
    [] label = "json" -> <<"j", "s", "o", "n">>
    [] label = "xml" -> <<"x", "m", "l">>
    [] label = "html" -> <<"h", "t", "m", "l">>
    [] label = "other" -> <<"o", "t", "h", "e", "r">>

\* the text of the instruction categorizeText puts before the sample: 188 characters
CategorizePromptLength == 188

\* /^[0-9]+$/.test(text)
matchesDigitsOnly(text) ==
  text # <<>> /\ \A i \in 1..Len(text) : text[i] \in Digits

\* fallbackCategorize with the xml test (line 504) made before the code test
\* (line 503)
fallbackCategorizeXmlFirst(text) ==
  IF text = <<>> THEN "other"
  ELSE IF includes(text, <<"@">>) /\ includes(text, <<".">>) THEN "email"
  ELSE IF startsWith(text, <<"h", "t", "t", "p", ":", "/", "/">>) \/ startsWith(text, <<"h", "t", "t", "p", "s", ":", "/", "/">>) THEN "link"
  ELSE IF matchesDigitsOnly(trim(text)) THEN "number"
  ELSE IF includes(text, <<"{">>) \/ includes(text, <<"[">>) THEN "json"
  ELSE IF includes(text, <<"<">>) /\ includes(text, <<">">>) THEN "html"
  ELSE IF includes(text, <<"<", "?", "x", "m", "l">>) \/ includes(text, <<"<", "x", "m", "l">>) THEN "xml"
  ELSE IF \/ includes(text, <<"f", "u", "n", "c", "t", "i", "o", "n">>)
          \/ includes(text, <<"c", "o", "n", "s", "t", " ">>)
          \/ includes(text, <<"v", "a", "r", " ">>)
          \/ includes(text, <<"c", "l", "a", "s", "s", " ">>) THEN "code"
  ELSE IF \/ startsWith(text, <<"#", "!">>)
          \/ startsWith(text, <<"s", "u", "d", "o", " ">>)
          \/ startsWith(text, <<"n", "p", "m", " ">>)
          \/ startsWith(text, <<"g", "i", "t", " ">>) THEN "command"
  ELSE "note"

\* fallbackCategorize
fallbackCategorize(text) ==
  IF text = <<>> THEN "other"
  ELSE IF includes(text, <<"@">>) /\ includes(text, <<".">>) THEN "email"
  ELSE IF startsWith(text, <<"h", "t", "t", "p", ":", "/", "/">>) \/ startsWith(text, <<"h", "t", "t", "p", "s", ":", "/", "/">>) THEN "link"
  ELSE IF matchesDigitsOnly(trim(text)) THEN "number"
  ELSE IF includes(text, <<"{">>) \/ includes(text, <<"[">>) THEN "json"
  ELSE IF includes(text, <<"<">>) /\ includes(text, <<">">>) THEN "html"
  ELSE IF \/ includes(text, <<"f", "u", "n", "c", "t", "i", "o", "n">>)
          \/ includes(text, <<"c", "o", "n", "s", "t", " ">>)
          \/ includes(text, <<"v", "a", "r", " ">>)
          \/ includes(text, <<"c", "l", "a", "s", "s", " ">>) THEN "code"
  ELSE IF includes(text, <<"<", "?", "x", "m", "l">>) \/ includes(text, <<"<", "x", "m", "l">>) THEN "xml"
  ELSE IF \/ startsWith(text, <<"#", "!">>)
          \/ startsWith(text, <<"s", "u", "d", "o", " ">>)
          \/ startsWith(text, <<"n", "p", "m", " ">>)
          \/ startsWith(text, <<"g", "i", "t", " ">>) THEN "command"
  ELSE "note"

LabelValue(label) == [type |-> "label", label |-> label]

\* categories.find(...) || 'note': another default label
MatchCategoryDefaultNote(cleanCategory) ==
  IF \E i \in 1..Len(categories) : includes(cleanCategory, LabelText(categories[i]))
    THEN categories[CHOOSE i \in 1..Len(categories) :
                      /\ includes(cleanCategory, LabelText(categories[i]))
                      /\ \A j \in 1..(i - 1) : ~includes(cleanCategory, LabelText(categories[j]))]
    ELSE "note"

\* categories.find(c => cleanCategory.includes(c)) || 'other'
MatchCategory(cleanCategory) ==
  IF \E i \in 1..Len(categories) : includes(cleanCategory, LabelText(categories[i]))
    THEN categories[CHOOSE i \in 1..Len(categories) :
                      /\ includes(cleanCategory, LabelText(categories[i]))
                      /\ \A j \in 1..(i - 1) : ~includes(cleanCategory, LabelText(categories[j]))]
    ELSE "other"

----------------------------------------------------------------------------
(* Search: the pure parts *)

VectorValue(vec) == [type |-> "vector", vec |-> vec]
ListValue(indices) == [type |-> "list", items |-> indices]

Item(text, embedding) == [text |-> text, embedding |-> embedding]

\* items.slice(0, n), for a sequence
slice(seq, n) == SubSeq(seq, 1, IF n < Len(seq) THEN (IF n < 0 THEN 0 ELSE n) ELSE Len(seq))

RECURSIVE Dot(_, _)
Dot(a, b) == IF a = <<>> THEN 0 ELSE Head(a) * Head(b) + Dot(Tail(a), Tail(b))

\* A similarity is kept exactly: the value is sign * sqrt(num / den), or NaN
Similarity(nan, sign, num, den) == [nan |-> nan, sign |-> sign, num |-> num, den |-> den]
ZeroSimilarity == Similarity(FALSE, 0, 0, 1)
NaNSimilarity == Similarity(TRUE, 0, 0, 1)

\* cosineSimilarity(vecA, vecB), vecA a value of the response, vecB an item's embedding
cosineSimilarity(vecA, vecB) ==
  IF vecA.type # "vector" \/ Len(vecA.vec) # Len(vecB) THEN ZeroSimilarity
  ELSE LET dotProduct == Dot(vecA.vec, vecB)
           normA == Dot(vecA.vec, vecA.vec)
           normB == Dot(vecB, vecB)
       IN
       IF normA * normB = 0 THEN NaNSimilarity   \* 0 / 0
       ELSE Similarity(FALSE,
                       IF dotProduct > 0 THEN 1 ELSE IF dotProduct < 0 THEN -1 ELSE 0,
                       dotProduct * dotProduct, normA * normB)

\* x > y; false when either is NaN
Greater(x, y) ==
  /\ ~x.nan /\ ~y.nan
  /\ x.sign * x.num * y.den > y.sign * y.num * x.den

\* sort((a, b) => b.similarity - a.similarity): stable, descending
RECURSIVE InsertBySimilarity(_, _)
InsertBySimilarity(sorted, e) ==
  IF sorted = <<>> THEN <<e>>
  ELSE IF Greater(e.similarity, Head(sorted).similarity) THEN <<e>> \o sorted
  ELSE <<Head(sorted)>> \o InsertBySimilarity(Tail(sorted), e)

RECURSIVE SortBySimilarity(_)
SortBySimilarity(seq) ==
  IF seq = <<>> THEN <<>>
  ELSE InsertBySimilarity(SortBySimilarity(SubSeq(seq, 1, Len(seq) - 1)), seq[Len(seq)])

\* Array.prototype.filter: the positions i >= from, in order, where the test
\* gave kept[i]
RECURSIVE FilterPositions(_, _)
FilterPositions(kept, from) ==
  IF from > Len(kept) THEN <<>>
  ELSE (IF kept[from] THEN <<from>> ELSE <<>>) \o FilterPositions(kept, from + 1)

\* the embedding path once the query's embedding is known: positions of the results
EmbeddingResults(queryEmbedding, limitedItems, limit) ==
  LET HasEmbedding(item) == Len(item.embedding) > 0
      itemsWithEmbeddings == FilterPositions([i \in 1..Len(limitedItems) |-> HasEmbedding(limitedItems[i])], 1)
      similarities == [k \in 1..Len(itemsWithEmbeddings) |->
                         [item |-> itemsWithEmbeddings[k],
                          similarity |-> cosineSimilarity(queryEmbedding,
                                           limitedItems[itemsWithEmbeddings[k]].embedding)]]
      sorted == SortBySimilarity(similarities)
  IN
  slice([k \in 1..Len(sorted) |-> sorted[k].item], limit)

\* text.split(/\s+/), as the set of its non-empty pieces: the maximal runs of
\* characters that are not white space (an empty piece never has length > 2)
split(text) ==
  LET n == Len(text)
      starts == {i \in 1..n : text[i] \notin WhiteSpace /\ (i = 1 \/ text[i - 1] \in WhiteSpace)}
      ends == {j \in 1..n : text[j] \notin WhiteSpace /\ (j = n \/ text[j + 1] \in WhiteSpace)}
      endOf(i) == CHOOSE j \in ends : j >= i /\ \A k \in ends : k >= i => j <= k
  IN
  {SubSeq(text, i, endOf(i)) : i \in starts}

\* the keyword fallback keeping the words of 2 characters (w.length > 1)
KeywordResultsKeepShort(safeQuery, items, limit) ==
  LET queryLower == toLowerCase(safeQuery)
      words == {w \in split(queryLower) : Len(w) > 1}
      Matches(item) ==
        words = {} \/ \E word \in words : includes(toLowerCase(item.text), word)
  IN
  slice(FilterPositions([i \in 1..Len(items) |-> Matches(items[i])], 1), limit)

\* the keyword fallback: positions of the matching items
KeywordResults(safeQuery, items, limit) ==
  LET queryLower == toLowerCase(safeQuery)
      words == {w \in split(queryLower) : Len(w) > 2}
      Matches(item) ==
        words = {} \/ \E word \in words : includes(toLowerCase(item.text), word)
  IN
  slice(FilterPositions([i \in 1..Len(items) |-> Matches(items[i])], 1), limit)

\* response.match(/\d+/g) with parseInt: the numbers written in the text
RECURSIVE matchNumbers(_, _, _)
matchNumbers(text, inNumber, number) ==
  IF text = <<>> THEN (IF inNumber THEN <<number>> ELSE <<>>)
  ELSE IF Head(text) \in Digits
    THEN matchNumbers(Tail(text), TRUE, 10 * number + DigitValue(Head(text)))
    ELSE (IF inNumber THEN <<number>> ELSE <<>>) \o matchNumbers(Tail(text), FALSE, 0)

\* the LLM ranking without the filter of the indices
RankingResultsUnfiltered(response, limitedItems, limit) ==
  slice(matchNumbers(response, FALSE, 0), limit)

\* the LLM ranking once the model has answered: positions, or "no numbers"
RankingResults(response, limitedItems, limit) ==
  LET numbers == matchNumbers(response, FALSE, 0)
      InRange(n) == n - 1 >= 0 /\ n - 1 < Len(limitedItems)
      kept == FilterPositions([k \in 1..Len(numbers) |-> InRange(numbers[k])], 1)
  IN
  slice([k \in 1..Len(kept) |-> numbers[kept[k]]], limit)

\* number of decimal digits of n
DecimalLength(n) == IF n < 10 THEN 1 ELSE IF n < 100 THEN 2 ELSE 3

\* length of the ranking prompt built at line 349
RankingPromptLength(safeQuery, limitedItems, limit) ==
  LET lineLength(i) ==
        DecimalLength(i) + 2
          + Len(truncateText(limitedItems[i].text, MAX_SEARCH_ITEM_LENGTH))
      itemsForSearch ==
        Sum([i \in 1..Len(limitedItems) |-> lineLength(i)])
          + (IF Len(limitedItems) > 0 THEN Len(limitedItems) - 1 ELSE 0)
  IN
  RankingPromptFixedLength + Len(safeQuery) + itemsForSearch + DecimalLength(limit)

QueryTooLargeError ==
  Error("Error", Message("Query too large for semantic search", {"too large"}, <<>>),
        "semanticSearch")

----------------------------------------------------------------------------
(* Shapes of the state *)

NoReq == [state |-> "none", endpoint |-> "", provider |-> "", retryCount |-> 0,
          key |-> NULL, waitTime |-> 0]
NoChat == [active |-> FALSE, provider |-> "", messages |-> <<>>, systemPrompt |-> -1]
NoOp == [name |-> "idle"]
NoValue == [type |-> "none"]
NoResult == [status |-> "none", value |-> NoValue, error |-> NoError, via |-> ""]

NoSettle == [status |-> "none", provider |-> "", retryCount |-> 0, error |-> NoError,
             content |-> NullValue]
NoFail == [happened |-> FALSE, primarySet |-> FALSE]

\* how an attempt ended: the kind of response (ok, error, badshape,
\* unparseable), transport for a failed connection, nokey for a missing
\* credential; the message of a structured error; the attempt counter
NoHeard == [kind |-> "none", message |-> AbsentMessage, retryCount |-> 0, provider |-> ""]

Obs0 == [http       |-> [p \in Providers |-> 0],  \* HTTP requests issued, per provider
         chain      |-> 0,         \* HTTP requests issued by the current makeRequest chain
         open       |-> 0,         \* HTTP requests issued and not yet answered or failed
         retried    |-> FALSE,     \* the current chain has scheduled a retry
         switches   |-> 0,         \* chatCompletion calls re-run on another provider
         toFast     |-> FALSE,     \* some re-run went from openai to groq
         rerouted   |-> FALSE,     \* the oversize reroute (line 167) was taken
         tokens     |-> 0,         \* estimatedTokens of the last chatCompletion entry
         chars      |-> 0,         \* length of totalText at the last chatCompletion entry
         handed     |-> 0,         \* largest estimatedTokens handed to makeRequest
         primaryAtCall |-> FALSE,  \* openaiApiKey was set when the operation was called
         groqFail   |-> NoFail,    \* how the groq leg of chatCompletion failed
         failed     |-> {},        \* the paths of semanticSearch that ended in its catch blocks
         gateway    |-> NoSettle,  \* the last settlement of a makeRequest chain
         heard      |-> NoHeard]   \* how the last attempt of a makeRequest chain ended

----------------------------------------------------------------------------
(* Outcomes of one synchronous run *)

Pending(rq, o) ==
  [status |-> "pending", req |-> rq, chat |-> NoChat, value |-> NoValue,
   error |-> NoError, via |-> "", obs |-> o]
Returned(v, via, o) ==
  [status |-> "returned", req |-> NoReq, chat |-> NoChat, value |-> v,
   error |-> NoError, via |-> via, obs |-> o]
Threw(e, via, o) ==
  [status |-> "threw", req |-> NoReq, chat |-> NoChat, value |-> NoValue,
   error |-> e, via |-> via, obs |-> o]

KeyOf(provider) == IF provider = "groq" THEN groqApiKey ELSE openaiApiKey

----------------------------------------------------------------------------
(* Provider gateway: makeRequest *)

Settled(status, provider, retryCount, e, content) ==
  [status |-> status, provider |-> provider, retryCount |-> retryCount, error |-> e,
   content |-> content]

Hear(o, rq, kind, message) ==
  [o EXCEPT !.heard = [kind |-> kind, message |-> message, retryCount |-> rq.retryCount,
                       provider |-> rq.provider]]

\* makeRequest with the credential check of lines 91-93 left out
makeRequestUnchecked(o, endpoint, provider, retryCount) ==
  Pending([state |-> "inflight", endpoint |-> endpoint, provider |-> provider,
           retryCount |-> retryCount, key |-> KeyOf(provider), waitTime |-> 0],
          [(IF retryCount = 0
              THEN [o EXCEPT !.chain = 0, !.retried = FALSE, !.gateway = NoSettle,
                             !.heard = NoHeard]
              ELSE o) EXCEPT !.http[provider] = @ + 1, !.chain = @ + 1, !.open = @ + 1])

\* makeRequest up to req.end(): the credential check, then one HTTP request
makeRequest(o, endpoint, provider, retryCount) ==
  LET apiKey == KeyOf(provider)
      o1 == IF retryCount = 0
              THEN [o EXCEPT !.chain = 0, !.retried = FALSE, !.gateway = NoSettle,
                             !.heard = NoHeard]
              ELSE o
  IN
  IF ~Truthy(apiKey)
    THEN Threw(MissingKeyError(provider), provider,
               [o1 EXCEPT !.gateway = Settled("rejected", provider, retryCount,
                                              MissingKeyError(provider), NullValue),
                          !.heard = [kind |-> "nokey", message |-> AbsentMessage,
                                     retryCount |-> retryCount, provider |-> provider]])
    ELSE Pending([state |-> "inflight", endpoint |-> endpoint, provider |-> provider,
                  retryCount |-> retryCount, key |-> apiKey, waitTime |-> 0],
                 [o1 EXCEPT !.http[provider] = @ + 1, !.chain = @ + 1, !.open = @ + 1])

\* res.on('end') with the retry test written retryCount <= maxRetries
OnResponseEndOneMore(o, rq, body) ==
  LET o1 == Hear(o, rq, body.t, body.message) IN
    IF body.t = "unparseable"
      THEN Threw(ParseError(rq.provider), rq.provider,
                 [o1 EXCEPT !.gateway = Settled("rejected", rq.provider, rq.retryCount,
                                               ParseError(rq.provider), NullValue)])
    ELSE IF body.t = "error"
      THEN LET error == Error("Error", ApiErrorMessage(body.message), rq.provider) IN
           IF isRateLimitError(error.message) /\ rq.retryCount <= maxRetries
             THEN Pending([rq EXCEPT !.state = "timer",
                                     !.waitTime = RetryWaitTime(error.message, rq.retryCount)],
                          [o1 EXCEPT !.retried = TRUE])
             ELSE Threw(error, rq.provider,
                        [o1 EXCEPT !.gateway = Settled("rejected", rq.provider, rq.retryCount,
                                                      error, NullValue)])
    ELSE Returned(body, rq.provider,
                  [o1 EXCEPT !.gateway = Settled("resolved", rq.provider, rq.retryCount,
                                                NoError, body.content)])

\* res.on('end') giving up one attempt early: retryCount < maxRetries - 1
OnResponseEndGiveUpEarly(o, rq, body) ==
  LET o1 == Hear(o, rq, body.t, body.message) IN
    IF body.t = "unparseable"
      THEN Threw(ParseError(rq.provider), rq.provider,
                 [o1 EXCEPT !.gateway = Settled("rejected", rq.provider, rq.retryCount,
                                               ParseError(rq.provider), NullValue)])
    ELSE IF body.t = "error"
      THEN LET error == Error("Error", ApiErrorMessage(body.message), rq.provider) IN
           IF isRateLimitError(error.message) /\ rq.retryCount < maxRetries - 1
             THEN Pending([rq EXCEPT !.state = "timer",
                                     !.waitTime = RetryWaitTime(error.message, rq.retryCount)],
                          [o1 EXCEPT !.retried = TRUE])
             ELSE Threw(error, rq.provider,
                        [o1 EXCEPT !.gateway = Settled("rejected", rq.provider, rq.retryCount,
                                                      error, NullValue)])
    ELSE Returned(body, rq.provider,
                  [o1 EXCEPT !.gateway = Settled("resolved", rq.provider, rq.retryCount,
                                                NoError, body.content)])

\* res.on('end') rejecting a structured error with a message of its own
OnResponseEndRewrapped(o, rq, body) ==
  LET o1 == Hear(o, rq, body.t, body.message) IN
    IF body.t = "unparseable"
      THEN Threw(ParseError(rq.provider), rq.provider,
                 [o1 EXCEPT !.gateway = Settled("rejected", rq.provider, rq.retryCount,
                                               ParseError(rq.provider), NullValue)])
    ELSE IF body.t = "error"
      THEN LET error == Error("Error", ApiErrorMessage(body.message), rq.provider)
               wrapped == Error("Error", ApiErrorMessage(AbsentMessage), rq.provider)
           IN
           IF isRateLimitError(error.message) /\ rq.retryCount < maxRetries
             THEN Pending([rq EXCEPT !.state = "timer",
                                     !.waitTime = RetryWaitTime(error.message, rq.retryCount)],
                          [o1 EXCEPT !.retried = TRUE])
             ELSE Threw(wrapped, rq.provider,
                        [o1 EXCEPT !.gateway = Settled("rejected", rq.provider, rq.retryCount,
                                                      wrapped, NullValue)])
    ELSE Returned(body, rq.provider,
                  [o1 EXCEPT !.gateway = Settled("resolved", rq.provider, rq.retryCount,
                                                NoError, body.content)])

\* res.on('end'): parse the body, classify a structured error, retry or settle
OnResponseEnd(o, rq, body) ==
  LET o1 == Hear(o, rq, body.t, body.message) IN
    IF body.t = "unparseable"
      THEN Threw(ParseError(rq.provider), rq.provider,
                 [o1 EXCEPT !.gateway = Settled("rejected", rq.provider, rq.retryCount,
                                               ParseError(rq.provider), NullValue)])
    ELSE IF body.t = "error"
      THEN LET error == Error("Error", ApiErrorMessage(body.message), rq.provider) IN
           IF isRateLimitError(error.message) /\ rq.retryCount < maxRetries
             THEN Pending([rq EXCEPT !.state = "timer",
                                     !.waitTime = RetryWaitTime(error.message, rq.retryCount)],
                          [o1 EXCEPT !.retried = TRUE])
             ELSE Threw(error, rq.provider,
                        [o1 EXCEPT !.gateway = Settled("rejected", rq.provider, rq.retryCount,
                                                      error, NullValue)])
    ELSE Returned(body, rq.provider,
                  [o1 EXCEPT !.gateway = Settled("resolved", rq.provider, rq.retryCount,
                                                NoError, body.content)])

\* req.on('error') treated as a rate-limit error is: retried while the attempt
\* counter is below maxRetries
OnRequestErrorRetried(o, rq) ==
  IF rq.retryCount < maxRetries
    THEN Pending([rq EXCEPT !.state = "timer", !.waitTime = BackoffBaseMs * Pow2(rq.retryCount)],
                 [Hear(o, rq, "transport", AbsentMessage) EXCEPT !.retried = TRUE])
    ELSE Threw(TransportError(rq.provider), rq.provider,
               [Hear(o, rq, "transport", AbsentMessage) EXCEPT !.gateway = Settled("rejected", rq.provider, rq.retryCount,
                                      TransportError(rq.provider), NullValue)])

\* req.on('error')
OnRequestError(o, rq) ==
  Threw(TransportError(rq.provider), rq.provider,
        [Hear(o, rq, "transport", AbsentMessage) EXCEPT !.gateway = Settled("rejected", rq.provider, rq.retryCount,
                                      TransportError(rq.provider), NullValue)])

\* the setTimeout callback: makeRequest(endpoint, data, provider, retryCount + 1)
OnRetryTimer(o, rq) == makeRequest(o, rq.endpoint, rq.provider, rq.retryCount + 1)

----------------------------------------------------------------------------
(* Fallback orchestrator: chatCompletion *)

\* length of systemText + ' ' + messages.map(m => m.content || '').join(' ')
TotalTextLength(messages, systemPrompt) ==
  (IF systemPrompt < 0 THEN 0 ELSE systemPrompt) + 1 + Sum(messages)
    + (IF Len(messages) > 0 THEN Len(messages) - 1 ELSE 0)

Frame(provider, messages, systemPrompt) ==
  [active |-> TRUE, provider |-> provider, messages |-> messages,
   systemPrompt |-> systemPrompt]

Switched(o, from, to) ==
  [o EXCEPT !.switches = @ + 1, !.toFast = @ \/ (to = "groq")]

RECURSIVE chatCompletion(_, _, _, _)
RECURSIVE chatCatch(_, _, _, _, _)

\* chatCompletion without its size test (lines 162-170)
chatCompletionUngated(o, messages, systemPrompt, provider) ==
  LET estimatedTokens == estimateTokens(TotalTextLength(messages, systemPrompt))
      o1 == [o EXCEPT !.tokens = estimatedTokens,
                      !.chars = TotalTextLength(messages, systemPrompt),
                      !.handed = IF estimatedTokens > @ THEN estimatedTokens ELSE @]
      r == makeRequest(o1, "/chat/completions", provider, 0)
  IN
  IF r.status = "pending"
    THEN [r EXCEPT !.chat = Frame(provider, messages, systemPrompt)]
    ELSE chatCatch(r.obs, messages, systemPrompt, provider, r.error)

\* chatCompletion from its entry to the first await
chatCompletion(o, messages, systemPrompt, provider) ==
  LET estimatedTokens == estimateTokens(TotalTextLength(messages, systemPrompt))
      o1 == [o EXCEPT !.tokens = estimatedTokens,
                      !.chars = TotalTextLength(messages, systemPrompt)]
  IN
  IF estimatedTokens > MaxRequestTokens
    THEN IF provider = "groq" /\ Truthy(openaiApiKey)
           THEN chatCompletion([Switched(o1, provider, "openai") EXCEPT !.rerouted = TRUE],
                               messages, systemPrompt, "openai")
           ELSE Threw(TooLargeError(estimatedTokens), provider, o1)
    ELSE LET o2 == [o1 EXCEPT !.handed = IF estimatedTokens > @ THEN estimatedTokens ELSE @]
             r == makeRequest(o2, "/chat/completions", provider, 0)
         IN
         IF r.status = "pending"
           THEN [r EXCEPT !.chat = Frame(provider, messages, systemPrompt)]
           ELSE chatCatch(r.obs, messages, systemPrompt, provider, r.error)

\* the catch block without its second test (lines 201-209): only errors that
\* look like size or quota errors are re-run on the primary provider
chatCatchQuotaOnly(o, messages, systemPrompt, provider, error) ==
  LET o1 == IF provider = "groq"
              THEN [o EXCEPT !.groqFail = [happened |-> TRUE,
                                           primarySet |-> Truthy(openaiApiKey)]]
              ELSE o
  IN
  IF /\ \/ Includes(error.message, "too large")
        \/ Includes(error.message, "TPM")
        \/ Includes(error.message, "Requested")
     /\ provider = "groq" /\ Truthy(openaiApiKey)
    THEN chatCompletion(Switched(o1, provider, "openai"), messages, systemPrompt, "openai")
  ELSE Threw(error, provider, o1)

\* the catch block with the test provider === 'groq' left out: a failed openai
\* leg is re-run as well
chatCatchAnyProvider(o, messages, systemPrompt, provider, error) ==
  LET o1 == IF provider = "groq"
              THEN [o EXCEPT !.groqFail = [happened |-> TRUE,
                                           primarySet |-> Truthy(openaiApiKey)]]
              ELSE o
  IN
  IF Truthy(openaiApiKey)
    THEN chatCompletion(Switched(o1, provider, "openai"), messages, systemPrompt, "openai")
    ELSE Threw(error, provider, o1)

\* the catch block throwing a new error in place of the one it caught
chatCatchWrapped(o, messages, systemPrompt, provider, error) ==
  LET o1 == IF provider = "groq"
              THEN [o EXCEPT !.groqFail = [happened |-> TRUE,
                                           primarySet |-> Truthy(openaiApiKey)]]
              ELSE o
  IN
  IF provider = "groq" /\ Truthy(openaiApiKey)
    THEN chatCompletion(Switched(o1, provider, "openai"), messages, systemPrompt, "openai")
    ELSE Threw(Error("Error", Message("AI request failed", {}, <<>>), provider), provider, o1)

\* the catch block of chatCompletion
chatCatch(o, messages, systemPrompt, provider, error) ==
  LET o1 == IF provider = "groq"
              THEN [o EXCEPT !.groqFail = [happened |-> TRUE,
                                           primarySet |-> Truthy(openaiApiKey)]]
              ELSE o
  IN
  IF /\ \/ Includes(error.message, "too large")
        \/ Includes(error.message, "TPM")
        \/ Includes(error.message, "Requested")
     /\ provider = "groq" /\ Truthy(openaiApiKey)
    THEN chatCompletion(Switched(o1, provider, "openai"), messages, systemPrompt, "openai")
  ELSE IF provider = "groq" /\ Truthy(openaiApiKey)
    THEN chatCompletion(Switched(o1, provider, "openai"), messages, systemPrompt, "openai")
  ELSE Threw(error, provider, o1)

\* chatCompletion resumed by the settlement g of its makeRequest
chatResume(frame, g) ==
  IF g.status = "returned"
    THEN IF g.value.t = "ok"
           THEN Returned(g.value.content, frame.provider, g.obs)   \* response.choices[0].message.content
           ELSE chatCatch(g.obs, frame.messages, frame.systemPrompt, frame.provider,
                          ShapeError(frame.provider))
    ELSE chatCatch(g.obs, frame.messages, frame.systemPrompt, frame.provider, g.error)

----------------------------------------------------------------------------
(* Inputs and provider behaviour *)

\* lengths of the message contents of a direct chatCompletion call
ContentLengths == {7999, 16000}
\* length of the system prompt, or -1 for none
SystemPrompts == {-1, 3}

RECURSIVE SeqsUpTo(_, _)
SeqsUpTo(S, n) ==
  IF n = 0 THEN {<<>>}
  ELSE LET shorter == SeqsUpTo(S, n - 1) IN
       shorter \cup {Append(s, x) : s \in {t \in shorter : Len(t) = n - 1}, x \in S}

ChatMessages == SeqsUpTo(ContentLengths, MaxMessages) \ {<<>>}

OkBody(content) == [t |-> "ok", content |-> content, message |-> AbsentMessage]
ErrorBody(message) == [t |-> "error", content |-> NullValue, message |-> message]
\* valid JSON without error, choices or data
BadShapeBody == [t |-> "badshape", content |-> NullValue, message |-> AbsentMessage]
\* JSON.parse throws, or the body is the JSON null
UnparseableBody == [t |-> "unparseable", content |-> NullValue, message |-> AbsentMessage]

\* texts given to categorizeText: one per rule of the heuristic classifier,
\* texts that meet two rules, and texts at and beyond the sample ceiling
CategorizeTexts ==
  <<<<>>,
   <<"a", "@", "b", ".", "c">>,
   <<"h", "t", "t", "p", "s", ":", "/", "/", "a", ".", "b", "@", "c">>,
   <<" ", "1", "2", "\n">>,
   <<"<", "?", "x", "m", "l", ">">>,
   <<"v", "a", "r", " ", "x">>,
   <<"g", "i", "t", " ", "s", "t">>,
   <<"h", "i">>,
   <<"a", "@", "b", ".">> \o Repeat("a", MAX_CATEGORIZE_LENGTH - 4),
   Repeat("a", MAX_CATEGORIZE_LENGTH + 1),
   <<"{">> \o Repeat("a", MAX_CATEGORIZE_LENGTH),
   <<"a", "@", "b", ".">> \o Repeat("a", MAX_CATEGORIZE_LENGTH - 3)>>

\* an operation keeps its input text by its place in the table of inputs
TextRefs == 1..Len(CategorizeTexts)
TextOf(ref) == CategorizeTexts[ref]

\* what the model may answer to the categorization prompt
CategoryAnswers ==
  {StringValue(<<"c", "o", "d", "e">>),
   StringValue(<<" ", "E", "m", "a", "i", "l", "\n">>),
   StringValue(<<"a", " ", "n", "o", "t", "e", " ", "o", "r", " ", "a", " ", "l", "i", "n", "k">>),
   StringValue(<<"u", "n", "s", "u", "r", "e">>),
   StringValue(<<>>),
   NullValue}

\* what the model may answer to the categorization prompt of a batch item
BatchAnswers ==
  {StringValue(<<"c", "o", "d", "e">>),
   StringValue(<<"u", "n", "s", "u", "r", "e">>),
   NullValue}

\* calls of semanticSearch: query, candidates (text, embedding), limit
SearchInputs ==
  <<[query |-> <<"b", "u", "g">>,
     items |-> <<Item(<<"b", "u", "y", " ", "m", "i", "l", "k">>, <<>>), Item(<<"c", "a", "l", "l", " ", "m", "o", "m">>, <<>>), Item(<<"f", "i", "x", " ", "t", "h", "e", " ", "b", "u", "g">>, <<>>)>>,
     limit |-> 5],
    [query |-> <<"F", "i", "x", " ", "i", "t">>,
     items |-> <<Item(<<"b", "u", "y", " ", "m", "i", "l", "k">>, <<1, 0>>), Item(<<"f", "i", "x", " ", "t", "h", "e", " ", "b", "u", "g">>, <<>>),
                 Item(<<"c", "a", "l", "l", " ", "m", "o", "m">>, <<0, 2>>), Item(<<"F", "I", "X", " ", "m", "e">>, <<1, 1>>)>>,
     limit |-> 2],
    [query |-> Repeat("q", MaxQueryLength + 1),
     items |-> <<Item(<<"q", "q", "q">>, <<>>)>>,
     limit |-> 5],
    [query |-> <<"t", "o", " ", "x">>,
     items |-> [i \in 1..(MAX_SEARCH_ITEMS + 1) |-> Item(<<"x">>, <<>>)],
     limit |-> 10],
    \* a query of 503 characters whose last word lies beyond the ceiling
    [query |-> <<"a", "b", "c">> \o Repeat(" ", MaxQueryLength - 3) \o <<"f", "i", "x">>,
     items |-> <<Item(<<"f", "i", "x", " ", "t", "h", "e", " ", "b", "u", "g">>, <<>>),
                 Item(<<"w", "a", "i", "t", ".", ".", ".">>, <<>>)>>,
     limit |-> 5]>>

SearchRefs == 1..Len(SearchInputs)

\* what the model may answer to the ranking prompt
RankingAnswers ==
  {StringValue(<<"2", ",", " ", "1">>),
   StringValue(<<"3", " ", "a", "n", "d", " ", "1", "2">>),
   StringValue(<<"0">>),
   StringValue(<<"1", "1", ",", "2", ",", "1", ",", "3">>),
   StringValue(<<"n", "o", "n", "e">>),
   NullValue}

\* what data[0].embedding may hold
EmbeddingAnswers ==
  {VectorValue(<<0, 1>>), VectorValue(<<0, 0>>), VectorValue(<<1>>), NullValue}

\* pieces of the texts given to fallbackCategorize alone: what each of its tests
\* looks for, and a letter that none looks for
Fragments ==
  {<<"@">>,
   <<".">>,
   <<"h", "t", "t", "p", ":", "/", "/">>,
   <<"h", "t", "t", "p", "s", ":", "/", "/">>,
   <<"1">>,
   <<" ">>,
   <<"{">>,
   <<"[">>,
   <<"<">>,
   <<">">>,
   <<"<", "?", "x", "m", "l">>,
   <<"<", "x", "m", "l">>,
   <<"f", "u", "n", "c", "t", "i", "o", "n">>,
   <<"c", "o", "n", "s", "t", " ">>,
   <<"v", "a", "r", " ">>,
   <<"c", "l", "a", "s", "s", " ">>,
   <<"#", "!">>,
   <<"s", "u", "d", "o", " ">>,
   <<"n", "p", "m", " ">>,
   <<"g", "i", "t", " ">>,
   <<"x">>}

RECURSIVE Concat(_)
Concat(parts) == IF parts = <<>> THEN <<>> ELSE Head(parts) \o Concat(Tail(parts))

\* the texts given to fallbackCategorize alone: at most MaxFragments pieces
HeuristicTexts == {Concat(parts) : parts \in SeqsUpTo(Fragments, MaxFragments)}

\* the vectors given to cosineSimilarity alone, and a missing first vector
Components == {0, 1, -1}
Vectors == SeqsUpTo(Components, MaxDim)
VectorArguments == {VectorValue(vec) : vec \in Vectors} \cup {NullValue}

\* the grave accent U+0060, a character that no string of this module can hold
Backtick == "U+0060"
Fence == <<Backtick, Backtick, Backtick>>

\* lengths of the texts given to smartPaste and formatText
TextLengths == {MAX_INPUT_LENGTH, MAX_INPUT_LENGTH + 1, MAX_TEXT_LENGTH, MAX_TEXT_LENGTH + 1}

\* options of smartPaste; rewriteTone is the length of the tone, -1 for null
PasteOptions ==
  {[removeLineBreaks |-> FALSE, formatJSON |-> FALSE, rewriteTone |-> -1, reformat |-> FALSE],
   [removeLineBreaks |-> TRUE, formatJSON |-> TRUE, rewriteTone |-> 6, reformat |-> TRUE]}

\* a key of formatPrompts and a format type that is none
FormatTypes == {"uppercase", "json-format", "rot13"}

\* what the model may answer to smartPaste: padded text, a fenced block, a JSON
\* wrapping with an escaped line break, a fence never closed, nothing
PasteAnswers ==
  {StringValue(<<" ", "o", "k", "\n">>),
   StringValue(Fence \o <<"j", "s", "\n", "o", "k", "\n", " ">> \o Fence \o <<"\n">>),
   StringValue(<<"{", " ", "\"", "t", "e", "x", "t", "\"", " ", ":", "\"", "a", "\\", "n", "b", "\"", "\n", "}">>),
   StringValue(Fence),
   NullValue}

\* what the model may answer to generateReply: a short reply, a reply padded with
\* blanks, nothing
ReplyAnswers ==
  {StringValue(<<"o", "k">>),
   StringValue(<<" ", "s", "e", "e", " ", "y", "o", "u", " ", "s", "o", "o", "n", " ">>),
   NullValue}

\* calls of generateReply: the messages (an array of texts, or one text, known
\* by their lengths) and the length of the context
ReplyInputs ==
  <<[isArray |-> FALSE, contents |-> <<MAX_INPUT_LENGTH + 1>>, context |-> 0],
    [isArray |-> FALSE, contents |-> <<MAX_TEXT_LENGTH>>, context |-> 5000],
    [isArray |-> TRUE, contents |-> <<>>, context |-> 0],
    [isArray |-> TRUE, contents |-> <<4000, 4000>>, context |-> MaxContextLength],
    [isArray |-> TRUE, contents |-> <<4000, 4000, 4000>>, context |-> 0],
    [isArray |-> TRUE, contents |-> <<2300, 2300, 2300, 2300, 2300, 2300>>, context |-> 0],
    [isArray |-> TRUE, contents |-> <<2361, 2361, 2361, 2361, 2361>>, context |-> 0],
    [isArray |-> TRUE, contents |-> <<2361, 2361, 2361, 2361, 2361>>, context |-> 1],
    [isArray |-> FALSE, contents |-> <<12>>, context |-> 5]>>
ReplyRefs == 1..Len(ReplyInputs)

\* what the body of a well-formed response may hold, by the operation asking
Contents(o) ==
  IF o.name = "categorizeText" THEN CategoryAnswers
  ELSE IF o.name = "batchCategorize" THEN BatchAnswers
  ELSE IF o.name = "smartPaste" THEN PasteAnswers
  ELSE IF o.name = "semanticSearch"
    THEN (IF o.phase = "embedding" THEN EmbeddingAnswers ELSE RankingAnswers)
  ELSE IF o.name = "generateReply" THEN ReplyAnswers
  ELSE {StringValue(<<"o", "k">>), NullValue}

Bodies(o) ==
  {OkBody(c) : c \in Contents(o)} \cup {ErrorBody(m) : m \in ProviderMessages}
    \cup {BadShapeBody, UnparseableBody}

----------------------------------------------------------------------------
(* Feature operations *)

\* categorizeText whose catch block rethrows what is no size or quota error
categorizeResumeRethrow(text, r) ==
  IF r.status = "returned" /\ r.value.type = "string"
    THEN LET cleanCategory == toLowerCase(trim(r.value.chars)) IN
         Returned(LabelValue(MatchCategory(cleanCategory)), r.via, r.obs)
  ELSE IF /\ r.status = "threw"
          /\ ~isRateLimitError(r.error.message)
          /\ ~Includes(r.error.message, "too large")
          /\ ~Includes(r.error.message, "TPM")
    THEN Threw(r.error, r.via, r.obs)
  ELSE Returned(LabelValue(fallbackCategorize(text)), "", r.obs)

\* categorizeText resumed by the outcome r of chatCompletion
categorizeResume(text, r) ==
  IF r.status = "returned" /\ r.value.type = "string"
    THEN LET cleanCategory == toLowerCase(trim(r.value.chars)) IN
         Returned(LabelValue(MatchCategory(cleanCategory)), r.via, r.obs)
    \* chatCompletion threw, or category.trim() threw on a non-string
    ELSE Returned(LabelValue(fallbackCategorize(text)), "", r.obs)

\* categorizeText without its size test (lines 466-469): every text is sampled
\* and sent
categorizeTextAlwaysAI(o, text) ==
  LET sampleText == truncateText(text, MAX_CATEGORIZE_LENGTH)
      r == chatCompletion(o, <<CategorizePromptLength + Len(sampleText)>>, -1, "groq")
  IN
  IF r.status = "pending" THEN r ELSE categorizeResume(text, r)

\* categorizeText from its entry to the first await
categorizeText(o, text) ==
  IF isTextTooLarge(text, MAX_CATEGORIZE_LENGTH)
    THEN Returned(LabelValue(fallbackCategorize(text)), "", o)
    ELSE LET sampleText == truncateText(text, MAX_CATEGORIZE_LENGTH)
             r == chatCompletion(o, <<CategorizePromptLength + Len(sampleText)>>, -1, "groq")
         IN
         IF r.status = "pending" THEN r ELSE categorizeResume(text, r)

\* the text of a batch item: a place in the table of texts, or 0 for a text that
\* is a number, on which text.substring is not a function
NumberText == 0
BatchTexts == {NumberText, 2, 12}
BatchInputs == SeqsUpTo(BatchTexts, MaxItems)

NotAFunctionError ==
  Error("TypeError", Message("text.substring is not a function", {}, <<>>), "truncateText")

\* categorizeText(item.text) from its entry to the first await
categorizeItem(o, text) ==
  IF text = NumberText
    \* isTextTooLarge gives false (undefined > 1000), truncateText throws at line 30
    THEN Threw(NotAFunctionError, "", o)
    ELSE categorizeText(o, TextOf(text))

\* the observations start afresh with each item; the unanswered requests stay
ItemObs(o) == [Obs0 EXCEPT !.primaryAtCall = Truthy(openaiApiKey), !.open = o.open]

BatchOp(items, index, results) ==
  [name |-> "batchCategorize", items |-> items, index |-> index, results |-> results]
BatchValue(results) == [type |-> "batch", entries |-> results]

\* { ...item, category }, with 'other' when categorizeText threw (line 517)
BatchEntry(text, c) ==
  [text |-> text, category |-> IF c.status = "threw" THEN "other" ELSE c.value.label]

RECURSIVE batchLoop(_, _, _, _)
RECURSIVE batchPush(_, _, _, _)

\* the loop body without its try/catch: a categorization that throws rejects
\* the batch
batchPushUncaught(c, items, index, results) ==
  IF c.status = "threw"
    THEN [op |-> BatchOp(items, index, results), out |-> Threw(c.error, "", c.obs)]
    ELSE batchLoop(c.obs, items, index + 1, Append(results, BatchEntry(items[index], c)))

\* results.push for the item at index, settled as c, then the next iteration
batchPush(c, items, index, results) ==
  batchLoop(c.obs, items, index + 1, Append(results, BatchEntry(items[index], c)))

\* the loop head starting the next item without awaiting the one before
batchLoopNoAwait(o, items, index, results) ==
  IF index > Len(items)
    THEN [op |-> BatchOp(items, index, results),
          out |-> Returned(BatchValue(results), "", o)]
    ELSE LET c == categorizeItem(ItemObs(o), items[index]) IN
         IF c.status = "pending" /\ index < Len(items)
           THEN LET d == categorizeItem(ItemObs(c.obs), items[index + 1]) IN
                [op |-> BatchOp(items, index + 1, results),
                 out |-> IF d.status = "pending" THEN d ELSE c]
         ELSE IF c.status = "pending"
           THEN [op |-> BatchOp(items, index, results), out |-> c]
         ELSE batchPush(c, items, index, results)

\* batchCategorize from the head of its loop, at item index, to the next await
batchLoop(o, items, index, results) ==
  IF index > Len(items)
    THEN [op |-> BatchOp(items, index, results),
          out |-> Returned(BatchValue(results), "", o)]
    ELSE LET c == categorizeItem(ItemObs(o), items[index]) IN
         IF c.status = "pending"
           THEN [op |-> BatchOp(items, index, results), out |-> c]
           ELSE batchPush(c, items, index, results)

\* batchCategorize resumed by the outcome r of the chatCompletion that the
\* categorizeText of the current item awaits
batchResume(o, r) ==
  batchPush(categorizeResume(TextOf(o.items[o.index]), r), o.items, o.index, o.results)

batchCategorize(o, items) == batchLoop(o, items, 1, <<>>)

\* text.split('\n')
RECURSIVE splitLines(_, _)
splitLines(text, line) ==
  IF text = <<>> THEN <<line>>
  ELSE IF Head(text) = "\n" THEN <<line>> \o splitLines(Tail(text), <<>>)
  ELSE splitLines(Tail(text), Append(line, Head(text)))

\* lines.join('\n')
RECURSIVE joinLines(_)
joinLines(lines) ==
  IF lines = <<>> THEN <<>>
  ELSE IF Len(lines) = 1 THEN lines[1]
  ELSE lines[1] \o <<"\n">> \o joinLines(Tail(lines))


\* smartPaste, lines 254-263: a markdown code block loses its fences
removeCodeBlock(cleanedResult) ==
  IF startsWith(cleanedResult, Fence)
    THEN LET lines == splitLines(cleanedResult, <<>>) IN
         IF Len(lines) > 1 /\ startsWith(lines[1], Fence)
           THEN LET shifted == Tail(lines)
                    popped == IF trim(shifted[Len(shifted)]) = Fence
                                THEN SubSeq(shifted, 1, Len(shifted) - 1)
                                ELSE shifted
                IN trim(joinLines(popped))
           ELSE cleanedResult
    ELSE cleanedResult

endsWith(text, pattern) ==
  Len(pattern) <= Len(text) /\ SubSeq(text, Len(text) - Len(pattern) + 1, Len(text)) = pattern
dropLast(text, n) == SubSeq(text, 1, Len(text) - n)

WrapperKeys ==
  {<<"\"", "t", "e", "x", "t", "\"">>, <<"\"", "r", "e", "s", "u", "l", "t", "\"">>,
   <<"\"", "c", "o", "n", "t", "e", "n", "t", "\"">>, <<"\"", "o", "u", "t", "p", "u", "t", "\"">>}

\* .replace(/\\n/g, '\n'): a backslash followed by n becomes a line break; the
\* replacement of \" finds nothing in a group that holds no quote
RECURSIVE unescape(_)
unescape(text) ==
  IF text = <<>> THEN <<>>
  ELSE IF Len(text) >= 2 /\ text[1] = "\\" /\ text[2] = "n"
    THEN <<"\n">> \o unescape(SubSeq(text, 3, Len(text)))
  ELSE <<Head(text)>> \o unescape(Tail(text))

\* smartPaste, lines 266-273: the match of
\*   /^\{[^}]*"(?:text|result|content|output)"\s*:\s*"([^"]+)"\s*\}$/
\* read from the end of the text, where each part is determined; NullValue for
\* no match, else the group
jsonMatch(text) ==
  IF Len(text) < 2 \/ text[1] # "{" \/ text[Len(text)] # "}" THEN NullValue
  ELSE LET inner == trimEnd(SubSeq(text, 2, Len(text) - 1)) IN
       IF ~endsWith(inner, <<"\"">>) THEN NullValue
       ELSE LET quoted == dropLast(inner, 1)
                quotes == {i \in 1..Len(quoted) : quoted[i] = "\""}
            IN
            IF quotes = {} THEN NullValue
            ELSE LET open == CHOOSE i \in quotes : \A j \in quotes : j <= i
                     group == SubSeq(quoted, open + 1, Len(quoted))
                     beforeValue == trimEnd(SubSeq(quoted, 1, open - 1))
                 IN
                 IF group = <<>> \/ ~endsWith(beforeValue, <<":">>) THEN NullValue
                 ELSE LET beforeColon == trimEnd(dropLast(beforeValue, 1)) IN
                      IF \E key \in WrapperKeys :
                           /\ endsWith(beforeColon, key)
                           /\ \A i \in 1..(Len(beforeColon) - Len(key)) : beforeColon[i] # "}"
                        THEN StringValue(group)
                        ELSE NullValue

\* smartPaste after chatCompletion returned (lines 251-275)
cleanResult(answer) ==
  LET cleanedResult == removeCodeBlock(trim(answer))
      match == jsonMatch(cleanedResult)
  IN IF match.type = "string" THEN unescape(match.chars) ELSE cleanedResult

\* length of the instruction smartPaste builds from its options (lines 226-244)
PastePromptLength(options) ==
  CleanPromptLength
    + (IF options.removeLineBreaks THEN LineBreaksPromptLength ELSE 0)
    + (IF options.formatJSON THEN FormatJSONPromptLength ELSE 0)
    + (IF options.rewriteTone > 0 THEN TonePromptFixedLength + options.rewriteTone ELSE 0)
    + (IF options.reformat THEN ReformatPromptLength ELSE 0)
    + ImportantPromptLength

PasteOp(len, options) == [name |-> "smartPaste", length |-> len, options |-> options]

\* smartPaste resumed by the outcome r of chatCompletion
smartPasteResume(r) ==
  IF r.status # "returned" THEN r
  ELSE IF r.value.type # "string" THEN Threw(TrimError(r.via), r.via, r.obs)
  ELSE Returned(StringValue(cleanResult(r.value.chars)), r.via, r.obs)

\* smartPaste without the size check of lines 217-219
smartPasteUnchecked(o, len, options) ==
  LET truncatedText == truncatedLength(len, MAX_INPUT_LENGTH)
      r == chatCompletion(o, <<PastePromptLength(options) + TextSeparatorLength + truncatedText>>,
                          -1, "groq")
  IN IF r.status = "pending" THEN r ELSE smartPasteResume(r)

\* smartPaste from its entry to the first await
smartPaste(o, len, options) ==
  IF isLengthTooLarge(len, MAX_TEXT_LENGTH)
    THEN Threw(skipLargeTextError("smart paste"), "", o)
    ELSE LET truncatedText == truncatedLength(len, MAX_INPUT_LENGTH)
             r == chatCompletion(o, <<PastePromptLength(options) + TextSeparatorLength
                                        + truncatedText>>, -1, "groq")
         IN IF r.status = "pending" THEN r ELSE smartPasteResume(r)

\* length of formatPrompts[formatType] || formatPrompts['remove-formatting']
FormatPromptLength(formatType) ==
  IF formatType = "html-to-markdown" THEN 97
  ELSE IF formatType = "markdown-to-html" THEN 87
  ELSE IF formatType = "json-format" THEN 101
  ELSE IF formatType = "code-format" THEN 100
  ELSE IF formatType = "capitalize" THEN 41
  ELSE IF formatType = "lowercase" THEN 42
  ELSE IF formatType = "uppercase" THEN 42
  ELSE 75

FormatOp(len, formatType) == [name |-> "formatText", length |-> len, formatType |-> formatType]

\* formatText from its entry to the first await; the outcome of chatCompletion
\* is its outcome
formatText(o, len, formatType) ==
  IF isLengthTooLarge(len, MAX_TEXT_LENGTH)
    THEN Threw(skipLargeTextError("formatting"), "", o)
    ELSE LET truncatedText == truncatedLength(len, MAX_INPUT_LENGTH) IN
         chatCompletion(o, <<FormatPromptLength(formatType) + truncatedText>>, -1, "groq")

\* lengths of `Message ${i + 1}: ${m}` for the messages m
RECURSIVE labelled(_)
labelled(lens) ==
  IF lens = <<>> THEN <<>> ELSE <<MessageLabelLength + Head(lens)>> \o labelled(Tail(lens))

\* length of the parts joined with a separator of length sep
joinedLength(lens, sep) ==
  IF lens = <<>> THEN 0 ELSE Sum(lens) + sep * (Len(lens) - 1)

\* the limited messages with one message more let through
limitAndSliceOneMore(contents, n) ==
  slice([i \in 1..Len(contents) |-> truncatedLength(contents[i], MAX_INPUT_LENGTH)], n + 1)

\* messages.map(msg => limitMessage(msg)).slice(0, n)
limitAndSlice(contents, n) ==
  slice([i \in 1..Len(contents) |-> truncatedLength(contents[i], MAX_INPUT_LENGTH)], n)

\* length of the prompt of generateReply (lines 407-424)
ReplyPromptLength(input) ==
  LET messagesText ==
        IF input.isArray
          THEN joinedLength(labelled(limitAndSlice(input.contents, MaxReplyMessages)),
                            MessageSeparatorLength)
          ELSE truncatedLength(input.contents[1], MAX_INPUT_LENGTH)
      limitedContext ==
        IF input.context > 0 THEN truncatedLength(input.context, MaxContextLength) ELSE 0
  IN ReplyPromptFixedLength
       + (IF limitedContext > 0 THEN ContextLabelLength + limitedContext ELSE 0)
       + messagesText

ReplyOp(ref) == [name |-> "generateReply", input |-> ref]

\* generateReply from its entry to the first await; the outcome of
\* chatCompletion is its outcome
generateReply(o, input) ==
  LET prompt == ReplyPromptLength(input) IN
  IF estimateTokens(prompt) > MaxReplyTokens
    THEN Threw(MessagesTooLargeError, "", o)
    ELSE chatCompletion(o, <<prompt>>, -1, "groq")

\* generateEmbedding from its entry to the first await
generateEmbedding(o, provider) ==
  IF provider = "groq"
    THEN Threw(Error("Error", Message("Groq does not support embeddings. Use OpenAI or keyword search.",
                                      {}, <<>>), "generateEmbedding"), provider, o)
    ELSE makeRequest(o, "/embeddings", provider, 0)

SearchOp(ref, phase) == [name |-> "semanticSearch", input |-> ref, phase |-> phase]

safeQueryOf(ref) == truncateText(SearchInputs[ref].query, MaxQueryLength)
limitedItemsOf(ref) == slice(SearchInputs[ref].items, MAX_SEARCH_ITEMS)

\* semanticSearch, lines 378-387: the keyword fallback
searchKeyword(ref, o) ==
  [op |-> SearchOp(ref, "keyword"),
   out |-> Returned(ListValue(KeywordResults(safeQueryOf(ref), SearchInputs[ref].items,
                                            SearchInputs[ref].limit)), "", o)]

\* semanticSearch resumed by the outcome r of chatCompletion (lines 360-376)
searchRankingResume(ref, r) ==
  IF /\ r.status = "returned"
     /\ r.value.type = "string"
     /\ matchNumbers(r.value.chars, FALSE, 0) # <<>>
    THEN [op |-> SearchOp(ref, "llm"),
          out |-> Returned(ListValue(RankingResults(r.value.chars, limitedItemsOf(ref),
                                                    SearchInputs[ref].limit)), r.via, r.obs)]
  ELSE IF r.status = "returned" /\ r.value.type = "string"
    THEN searchKeyword(ref, r.obs)   \* no number in the answer
  \* the catch block: chatCompletion threw, or response.match threw on a non-string
  ELSE searchKeyword(ref, [r.obs EXCEPT !.failed = @ \cup {"llm"}])

\* semanticSearch, lines 340-358: the LLM ranking up to its await
searchRanking(ref, o) ==
  IF Truthy(groqApiKey) /\ ~isTextTooLarge(safeQueryOf(ref), MaxQueryLength)
    THEN LET promptLength == RankingPromptLength(safeQueryOf(ref), limitedItemsOf(ref),
                                                 SearchInputs[ref].limit)
         IN
         IF estimateTokens(promptLength) > MaxRankingTokens
           \* 'Query too large for semantic search', thrown and caught at line 367
           THEN searchKeyword(ref, [o EXCEPT !.failed = @ \cup {"llm"}])
           ELSE LET r == chatCompletion(o, <<promptLength>>, -1, "groq") IN
                IF r.status = "pending"
                  THEN [op |-> SearchOp(ref, "llm"), out |-> r]
                  ELSE searchRankingResume(ref, r)
    ELSE searchKeyword(ref, o)

\* the embedding path without its try/catch: a rejection of generateEmbedding
\* rejects the search
searchEmbeddingResumeUncaught(ref, g) ==
  IF g.status = "returned" /\ g.value.t = "ok"
    THEN LET results == EmbeddingResults(g.value.content, limitedItemsOf(ref),
                                         SearchInputs[ref].limit)
         IN
         IF Len(results) > 0
           THEN [op |-> SearchOp(ref, "embedding"),
                 out |-> Returned(ListValue(results), "openai", g.obs)]
           ELSE searchRanking(ref, g.obs)
  ELSE IF g.status = "threw"
    THEN [op |-> SearchOp(ref, "embedding"), out |-> Threw(g.error, "openai", g.obs)]
  ELSE searchRanking(ref, [g.obs EXCEPT !.failed = @ \cup {"embedding"}])

\* semanticSearch resumed by the settlement g of generateEmbedding (lines 315-337)
searchEmbeddingResume(ref, g) ==
  IF g.status = "returned" /\ g.value.t = "ok"
    THEN LET results == EmbeddingResults(g.value.content, limitedItemsOf(ref),
                                         SearchInputs[ref].limit)
         IN
         IF Len(results) > 0
           THEN [op |-> SearchOp(ref, "embedding"),
                 out |-> Returned(ListValue(results), "openai", g.obs)]
           ELSE searchRanking(ref, g.obs)
    \* the catch block: 'Embedding search failed, falling back'
    ELSE searchRanking(ref, [g.obs EXCEPT !.failed = @ \cup {"embedding"}])

\* semanticSearch from its entry to the first await
semanticSearch(o, ref) ==
  IF Truthy(openaiApiKey)
    THEN LET g == generateEmbedding(o, "openai") IN
         IF g.status = "pending"
           THEN [op |-> SearchOp(ref, "embedding"), out |-> g]
           ELSE searchEmbeddingResume(ref, g)
    ELSE searchRanking(ref, o)

CategorizeOp(ref) == [name |-> "categorizeText", text |-> ref]

\* the operation resumed by the outcome r of the call it awaits
OpResume(o, r) ==
  IF r.status = "pending" THEN [op |-> o, out |-> r]
  ELSE IF o.name = "categorizeText" THEN [op |-> o, out |-> categorizeResume(TextOf(o.text), r)]
  ELSE IF o.name = "semanticSearch"
    THEN (IF o.phase = "embedding"
            THEN searchEmbeddingResume(o.input, r)
            ELSE searchRankingResume(o.input, r))
  ELSE IF o.name = "batchCategorize" THEN batchResume(o, r)
  ELSE IF o.name = "smartPaste" THEN [op |-> o, out |-> smartPasteResume(r)]
  ELSE [op |-> o, out |-> r]

ChatOp(messages, systemPrompt, provider) ==
  [name |-> "chatCompletion", provider |-> provider, messages |-> messages,
   systemPrompt |-> systemPrompt]

ObsAtCall == [Obs0 EXCEPT !.primaryAtCall = Truthy(openaiApiKey)]

----------------------------------------------------------------------------
(* Actions *)

Idle == op.name = "idle"

\* the operation m.op begins: it has run up to its first await, or to its end
InstallOp(m) ==
  /\ op' = m.op
  /\ chat' = m.out.chat
  /\ req' = m.out.req
  /\ result' = [status |-> m.out.status, value |-> m.out.value,
                error |-> m.out.error, via |-> m.out.via]
  /\ obs' = m.out.obs

Install(m) ==
  /\ InstallOp(m)
  /\ UNCHANGED <<openaiApiKey, groqApiKey, other, mainVars>>

\* the settlement g of the makeRequest chain reaches whoever awaits it
Deliver(g) ==
  IF g.status = "pending" THEN Install([op |-> op, out |-> [g EXCEPT !.chat = chat]])
  ELSE IF chat.active THEN Install(OpResume(op, chatResume(chat, g)))
  ELSE Install(OpResume(op, g))

setOpenAIKey(key) ==
  /\ openaiApiKey' = key
  /\ UNCHANGED <<groqApiKey, op, chat, req, result, obs, other, mainVars>>

setGroqKey(key) ==
  /\ groqApiKey' = key
  /\ UNCHANGED <<openaiApiKey, op, chat, req, result, obs, other, mainVars>>

CallChatCompletion(messages, systemPrompt, provider) ==
  /\ Idle
  /\ Install([op |-> ChatOp(messages, systemPrompt, provider),
              out |-> chatCompletion(ObsAtCall, messages, systemPrompt, provider)])

CallCategorizeText(ref) ==
  /\ Idle
  /\ Install([op |-> CategorizeOp(ref), out |-> categorizeText(ObsAtCall, TextOf(ref))])

CallSemanticSearch(ref) ==
  /\ Idle
  /\ Install(semanticSearch(ObsAtCall, ref))

CallSmartPaste(len, options) ==
  /\ Idle
  /\ Install([op |-> PasteOp(len, options), out |-> smartPaste(ObsAtCall, len, options)])

CallFormatText(len, formatType) ==
  /\ Idle
  /\ Install([op |-> FormatOp(len, formatType),
              out |-> formatText(ObsAtCall, len, formatType)])

CallGenerateReply(ref) ==
  /\ Idle
  /\ Install([op |-> ReplyOp(ref), out |-> generateReply(ObsAtCall, ReplyInputs[ref])])

CallBatchCategorize(items) ==
  /\ Idle
  /\ Install(batchCategorize(ObsAtCall, items))

Response ==
  /\ req.state = "inflight"
  /\ \E body \in Bodies(op) :
       Deliver(OnResponseEnd([obs EXCEPT !.open = @ - 1], req, body))

RequestError ==
  /\ req.state = "inflight"
  /\ Deliver(OnRequestError([obs EXCEPT !.open = @ - 1], req))

RetryTimer ==
  /\ req.state = "timer"
  /\ Deliver(OnRetryTimer(obs, req))

\* the caller takes the settlement of the operation's promise
Settle ==
  /\ result.status \in {"returned", "threw"}
  /\ op' = NoOp
  /\ chat' = NoChat
  /\ req' = NoReq
  /\ result' = NoResult
  /\ obs' = Obs0
  /\ UNCHANGED <<openaiApiKey, groqApiKey, other, mainVars>>

\* the second call: generateEmbedding(text, 'openai') made by another caller,
\* while the first operation is anywhere in its course
NoOther == [status |-> "idle", req |-> NoReq, obs |-> Obs0, duringWait |-> FALSE]

\* what the response to the second call may hold
OtherBodies ==
  {OkBody(VectorValue(<<0, 1>>)), ErrorBody(RateLimitPlainMessage),
   ErrorBody(InvalidKeyMessage), BadShapeBody}

\* generateEmbedding resumed by the settlement g of its makeRequest (line 294)
embeddingResume(g) ==
  IF g.status = "returned" /\ g.value.t # "ok"
    THEN Threw(ShapeError("openai"), "openai", g.obs)
    ELSE g

OtherStep(g) ==
  /\ other' = [other EXCEPT !.status = g.status, !.req = g.req, !.obs = g.obs]
  /\ UNCHANGED <<openaiApiKey, groqApiKey, op, chat, req, result, obs, mainVars>>

\* the second call made only when no backoff wait is pending anywhere
OtherCallLocked ==
  /\ other.status = "idle"
  /\ req.state # "timer"
  /\ LET g == generateEmbedding(Obs0, "openai") IN
     /\ other' = [status |-> g.status, req |-> g.req, obs |-> g.obs,
                  duringWait |-> req.state = "timer"]
     /\ UNCHANGED <<openaiApiKey, groqApiKey, op, chat, req, result, obs, mainVars>>

OtherCall ==
  /\ other.status = "idle"
  /\ LET g == generateEmbedding(Obs0, "openai") IN
     /\ other' = [status |-> g.status, req |-> g.req, obs |-> g.obs,
                  duringWait |-> req.state = "timer"]
     /\ UNCHANGED <<openaiApiKey, groqApiKey, op, chat, req, result, obs, mainVars>>

OtherResponse ==
  /\ other.req.state = "inflight"
  /\ \E body \in OtherBodies :
       OtherStep(embeddingResume(OnResponseEnd([other.obs EXCEPT !.open = @ - 1],
                                               other.req, body)))

OtherRequestError ==
  /\ other.req.state = "inflight"
  /\ OtherStep(OnRequestError([other.obs EXCEPT !.open = @ - 1], other.req))

OtherRetryTimer ==
  /\ other.req.state = "timer"
  /\ OtherStep(OnRetryTimer(other.obs, other.req))

OtherSettle ==
  /\ other.status \in {"returned", "threw"}
  /\ other' = NoOther
  /\ UNCHANGED <<openaiApiKey, groqApiKey, op, chat, req, result, obs, mainVars>>

HeuristicOp(text) == [name |-> "fallbackCategorize", text |-> text]
SimilarityOp(vecA, vecB) == [name |-> "cosineSimilarity", vecA |-> vecA, vecB |-> vecB]

\* a synchronous function applied to its arguments
Apply(value) ==
  /\ result.status = "none"
  /\ result' = [status |-> "returned", value |-> value, error |-> NoError, via |-> ""]
  /\ UNCHANGED <<openaiApiKey, groqApiKey, op, chat, req, obs, other, mainVars>>

ApplyFallbackCategorize ==
  /\ op.name = "fallbackCategorize"
  /\ Apply(LabelValue(fallbackCategorize(op.text)))

ApplyCosineSimilarity ==
  /\ op.name = "cosineSimilarity"
  /\ Apply(cosineSimilarity(op.vecA, op.vecB))

TruncateOp(text, maxLength) == [name |-> "truncateText", text |-> text, maxLength |-> maxLength]

ApplyTruncateText ==
  /\ op.name = "truncateText"
  /\ Apply(StringValue(truncateText(op.text, op.maxLength)))

----------------------------------------------------------------------------
(* The main process (main.js) and the window's copy of the history         *)
(* (renderer.js).                                                          *)
(*                                                                         *)
(* An action is one run of the main process or of the window up to the     *)
(* next await on real I/O: the lookup of the active application            *)
(* (isAppExcluded) and the call of the AI service (categorizeText).  The   *)
(* file operations are synchronous, so saving and loading the history are  *)
(* part of the run that calls them.  A message of the window to the main   *)
(* process is handled in the step that sends it; the messages of the main  *)
(* process to the window wait in `inbox`, so the window may act on a copy  *)
(* of the history that is out of date.                                     *)
(***************************************************************************)

MAX_HISTORY == 100

\* texts the user copies during a run
MaxCopies == 2
\* clicks on a row or a settings switch of the window, or on the tray's Clear
\* History
MaxClicks == 2
\* 'history-updated' messages the window has not handled yet
MaxInbox == 1
\* the rows of the window the user clicks on
MaxPick == 2

DigitChar(d) == <<"0", "1", "2", "3", "4", "5", "6", "7", "8", "9">>[d + 1]

\* Number.prototype.toString of a natural number
RECURSIVE toString(_)
toString(n) == IF n < 10 THEN <<DigitChar(n)>> ELSE toString(n \div 10) \o <<DigitChar(n % 10)>>

\* an entry of the history; its id is the time of its creation, and the clock
\* has moved on when the next entry is created
newItem(text, id, category) == [text |-> text, id |-> id, category |-> category]

\* the texts the user copies: one never copied before, one that an earlier
\* session has in its history
CopyTexts == {<<"a">>, toString(MAX_HISTORY - 1)}

\* the labels categorizeText answers with in these runs
AiCategories == {"code", "other"}

\* the inline categorization of addToHistory
basicCategorize(text) ==
  IF includes(text, <<"@">>) /\ includes(text, <<".">>) THEN "email"
  ELSE IF startsWith(text, <<"h", "t", "t", "p", ":", "/", "/">>) \/ startsWith(text, <<"h", "t", "t", "p", "s", ":", "/", "/">>) THEN "link"
  ELSE IF matchesDigitsOnly(trim(text)) THEN "number"
  ELSE IF includes(text, <<"{">>) \/ includes(text, <<"[">>) THEN "json"
  ELSE IF includes(text, <<"<">>) /\ includes(text, <<">">>) THEN "html"
  ELSE IF includes(text, <<"f", "u", "n", "c", "t", "i", "o", "n">>) \/ includes(text, <<"c", "o", "n", "s", "t", " ">>) THEN "code"
  ELSE "note"

\* a history of n items left by earlier sessions: numbers the user copied, all
\* different, the newest first
OldHistory(n) == [i \in 1..n |-> newItem(toString(n + 1 - i), toString(n + 1 - i), "number")]

\* settings as declared
DefaultSettings ==
  [encryptionEnabled |-> TRUE, inMemoryOnly |-> FALSE, excludedApps |-> <<>>,
   privateMode |-> FALSE, aiEnabled |-> FALSE, openaiApiKey |-> "",
   groqApiKey |-> "", autoCategorize |-> FALSE, chatAssistantEnabled |-> FALSE,
   watchedApps |-> <<>>, autoSendReplies |-> FALSE]

\* what the settings file holds when the application starts: the defaults, an
\* excluded application, or an AI provider configured for categorization
SavedSettings ==
  {DefaultSettings,
   [DefaultSettings EXCEPT !.excludedApps = <<"1Password">>],
   [DefaultSettings EXCEPT !.aiEnabled = TRUE, !.groqApiKey = "sk-1", !.autoCategorize = TRUE]}

AbsentFile == [exists |-> FALSE, format |-> "", history |-> <<>>]

\* fs.writeFileSync(HISTORY_FILE, JSON.stringify(clipboardHistory))
PlainFile(h) == [exists |-> TRUE, format |-> "json", history |-> h]

\* fs.writeFileSync(ENCRYPTED_HISTORY_FILE, encrypt(JSON.stringify(clipboardHistory), key))
EncryptedFile(h) == [exists |-> TRUE, format |-> "aes-256-cbc", history |-> h]

\* decrypt, then JSON.parse: the history of a file written by encrypt with the
\* key of the key file, nothing of any other file
decrypt(file) == IF file.format = "aes-256-cbc" THEN file.history ELSE <<>>

EmptyDisk == [plain |-> AbsentFile, encrypted |-> AbsentFile, keyFile |-> FALSE,
              settingsFile |-> DefaultSettings]

\* saveHistory, without the test of settings.inMemoryOnly
saveHistoryAlways(d, h, s) ==
  IF s.encryptionEnabled
    THEN [d EXCEPT !.keyFile = TRUE, !.encrypted = EncryptedFile(h), !.plain = AbsentFile]
    ELSE [d EXCEPT !.plain = PlainFile(h), !.encrypted = AbsentFile]

\* saveHistory: the files after the history h is saved under the settings s
saveHistory(d, h, s) ==
  IF s.inMemoryOnly THEN d
  ELSE IF s.encryptionEnabled
    THEN [d EXCEPT !.keyFile = TRUE, !.encrypted = EncryptedFile(h), !.plain = AbsentFile]
    ELSE [d EXCEPT !.plain = PlainFile(h), !.encrypted = AbsentFile]

\* loadHistory: the history after the files are read under the settings s
loadHistory(d, h, s) ==
  IF s.inMemoryOnly THEN <<>>
  ELSE IF s.encryptionEnabled /\ d.encrypted.exists THEN decrypt(d.encrypted)
  ELSE IF d.plain.exists THEN d.plain.history
  ELSE h

\* saveSettings: settings.privateMode follows isPrivateMode, the file follows
\* the settings
saveSettings(s, private) == [s EXCEPT !.privateMode = private]

\* clipboardHistory.unshift(newItem), without the limit
unshiftUnlimited(h, item) == <<item>> \o h

\* clipboardHistory.unshift(newItem), then the limit of the history's size
unshift(h, item) == slice(<<item>> \o h, MAX_HISTORY)

\* clipboardHistory.filter(item => item.id !== itemId)
filter(h, itemId) ==
  LET Kept(item) == item.id # itemId IN SelectSeq(h, Kept)

\* history.findIndex(h => h.id === item.id), counted from 1
findIndex(h, itemId) == CHOOSE i \in 1..Len(h) : h[i].id = itemId /\ \A j \in 1..(i - 1) : h[j].id # itemId

\* history.splice(historyIndex, 1); history.unshift(item)
moveToTop(h, index, item) == <<item>> \o SubSeq(h, 1, index - 1) \o SubSeq(h, index + 1, Len(h))

Without(seq, i) == SubSeq(seq, 1, i - 1) \o SubSeq(seq, i + 1, Len(seq))

\* an addToHistory call suspended at isAppExcluded or at categorizeText
Suspended(text, stage, id) == [text |-> text, stage |-> stage, id |-> id]

serviceVars == <<op, chat, req, result, obs, other, assistantVars>>

\* new ChatAssistant(): nothing watched, no timer, no callback; lastClipboard is
\* the variable of that name in the closure of startClipboardMonitoring
NoAssistant ==
  [watchedApps |-> <<>>, isMonitoring |-> FALSE, monitoringInterval |-> FALSE,
   messageCallbacks |-> 0, lastClipboard |-> <<>>]

\* calls: the most invocations of the callback any one detected message has had;
\* sent: the most calls of sendReply for one detected message;
\* written: the text on the clipboard was put there by sendReply
NoSeen == [calls |-> 0, sent |-> 0, written |-> FALSE]

AssistantStart ==
  /\ chatAssistant = NoAssistant
  /\ tasks = <<>>
  /\ seen = NoSeen
  /\ handler = ""

\* the state of the module when it is loaded
MainStart ==
  /\ clipboardHistory = <<>>
  /\ history = <<>>
  /\ inbox = <<>>
  /\ isMonitoring = TRUE
  /\ monitoringInterval = FALSE
  /\ isPrivateMode = FALSE
  /\ settings = DefaultSettings
  /\ lastClipboardText = <<>>
  /\ clipboard = <<>>
  /\ disk = EmptyDisk
  /\ pending = <<>>
  /\ copies = 0
  /\ clicks = 0
  /\ now = MAX_HISTORY + 1
  /\ AssistantStart

\* the end of addToHistory: the item enters the history, the history is saved
\* and sent to the window
Store(item, rest) ==
  LET h == unshift(clipboardHistory, item) IN
  /\ Len(inbox) < MaxInbox
  /\ clipboardHistory' = h
  /\ disk' = saveHistory(disk, h, settings)
  /\ inbox' = Append(inbox, h)
  /\ pending' = rest

\* addToHistory after isAppExcluded has answered no: the comparison with the
\* newest item, the new item, its category
Check(text, rest) ==
  IF clipboardHistory # <<>> /\ clipboardHistory[1].text = text
    THEN /\ pending' = rest
         /\ UNCHANGED <<clipboardHistory, disk, inbox, now, openaiApiKey, groqApiKey>>
    ELSE /\ now' = now + 1
         /\ IF /\ settings.autoCategorize
               /\ settings.aiEnabled
               /\ (Truthy(settings.openaiApiKey) \/ Truthy(settings.groqApiKey))
              THEN /\ openaiApiKey' = IF Truthy(settings.openaiApiKey) THEN settings.openaiApiKey ELSE openaiApiKey
                   /\ groqApiKey' = IF Truthy(settings.groqApiKey) THEN settings.groqApiKey ELSE groqApiKey
                   /\ pending' = Append(rest, Suspended(text, "categorizeText", toString(now)))
                   /\ UNCHANGED <<clipboardHistory, disk, inbox>>
              ELSE /\ Store(newItem(text, toString(now), basicCategorize(text)), rest)
                   /\ UNCHANGED <<openaiApiKey, groqApiKey>>

\* addToHistory up to its first await on I/O
addToHistory(text) ==
  IF trim(text) = <<>> \/ isPrivateMode
    THEN UNCHANGED <<clipboardHistory, disk, inbox, pending, now, openaiApiKey, groqApiKey>>
  ELSE IF settings.excludedApps = <<>>
    THEN Check(text, pending)
  ELSE /\ pending' = Append(pending, Suspended(text, "isAppExcluded", <<>>))
       /\ UNCHANGED <<clipboardHistory, disk, inbox, now, openaiApiKey, groqApiKey>>

\* the user copies a text in some application
Copy(text) ==
  /\ copies < MaxCopies
  /\ clipboard # text
  /\ clipboard' = text
  /\ copies' = copies + 1
  /\ UNCHANGED <<clipboardHistory, history, inbox, isMonitoring, monitoringInterval,
                 isPrivateMode, settings, lastClipboardText, disk, pending, clicks,
                 now, openaiApiKey, groqApiKey, serviceVars>>

\* a tick of the polling timer that finds the clipboard changed
monitorClipboard ==
  /\ monitoringInterval
  /\ clipboard # lastClipboardText
  /\ lastClipboardText' = clipboard
  /\ addToHistory(clipboard)
  /\ UNCHANGED <<history, isMonitoring, monitoringInterval, isPrivateMode, settings,
                 clipboard, copies, clicks, serviceVars>>

\* getActiveApp answers: the active application is excluded or it is not
AppDetected ==
  \E i \in 1..Len(pending), excluded \in BOOLEAN :
    /\ pending[i].stage = "isAppExcluded"
    /\ IF excluded
         THEN /\ pending' = Without(pending, i)
              /\ UNCHANGED <<clipboardHistory, disk, inbox, now, openaiApiKey, groqApiKey>>
         ELSE Check(pending[i].text, Without(pending, i))
    /\ UNCHANGED <<history, isMonitoring, monitoringInterval, isPrivateMode, settings,
                   lastClipboardText, clipboard, copies, clicks, serviceVars>>

\* categorizeText answers with a label
Categorized ==
  \E i \in 1..Len(pending), category \in AiCategories :
    /\ pending[i].stage = "categorizeText"
    /\ Store(newItem(pending[i].text, pending[i].id, category), Without(pending, i))
    /\ UNCHANGED <<history, isMonitoring, monitoringInterval, isPrivateMode, settings,
                   lastClipboardText, clipboard, copies, clicks,
                   now, openaiApiKey, groqApiKey, serviceVars>>

startMonitoring ==
  /\ ~monitoringInterval
  /\ isMonitoring' = TRUE
  /\ monitoringInterval' = TRUE

stopMonitoring ==
  /\ monitoringInterval
  /\ isMonitoring' = FALSE
  /\ monitoringInterval' = FALSE

\* the tray's Pause/Resume item and the window's 'toggle-monitoring'
toggleMonitoring ==
  /\ IF isMonitoring THEN stopMonitoring ELSE startMonitoring
  /\ UNCHANGED <<clipboardHistory, history, inbox, isPrivateMode, settings,
                 lastClipboardText, clipboard, disk, pending, copies, clicks,
                 now, openaiApiKey, groqApiKey, serviceVars>>

\* the tray's Private Mode item and the window's 'toggle-private-mode'
togglePrivateMode ==
  /\ isPrivateMode' = ~isPrivateMode
  /\ settings' = saveSettings(settings, ~isPrivateMode)
  /\ disk' = [disk EXCEPT !.settingsFile = settings']
  /\ UNCHANGED <<clipboardHistory, history, inbox, isMonitoring, monitoringInterval,
                 lastClipboardText, clipboard, pending, copies, clicks,
                 now, openaiApiKey, groqApiKey, serviceVars>>

\* the tray's Clear History item
ClearHistory ==
  /\ clicks < MaxClicks
  /\ Len(inbox) < MaxInbox
  /\ clicks' = clicks + 1
  /\ clipboardHistory' = <<>>
  /\ disk' = saveHistory(disk, <<>>, settings)
  /\ inbox' = Append(inbox, <<>>)
  /\ UNCHANGED <<history, isMonitoring, monitoringInterval, isPrivateMode, settings,
                 lastClipboardText, clipboard, pending, copies,
                 now, openaiApiKey, groqApiKey, serviceVars>>

\* the window handles 'history-updated'
HistoryUpdated ==
  /\ inbox # <<>>
  /\ history' = Head(inbox)
  /\ inbox' = Tail(inbox)
  /\ UNCHANGED <<clipboardHistory, isMonitoring, monitoringInterval, isPrivateMode,
                 settings, lastClipboardText, clipboard, disk, pending, copies, clicks,
                 now, openaiApiKey, groqApiKey, serviceVars>>

\* a click on the delete button of a row, and the handler of 'delete-item'
DeleteItem(index) ==
  LET h == filter(clipboardHistory, history[index].id) IN
  /\ clicks < MaxClicks
  /\ Len(inbox) < MaxInbox
  /\ clicks' = clicks + 1
  /\ clipboardHistory' = h
  /\ disk' = saveHistory(disk, h, settings)
  /\ inbox' = Append(inbox, h)
  /\ UNCHANGED <<history, isMonitoring, monitoringInterval, isPrivateMode, settings,
                 lastClipboardText, clipboard, pending, copies,
                 now, openaiApiKey, groqApiKey, serviceVars>>

\* pasteItem of the window, and the handlers of 'update-history' and
\* 'paste-item': the window moves the item to the top of its copy and sends the
\* copy, the main process takes it as its history, saves it, and writes the
\* item's text to the clipboard
PasteItem(index) ==
  LET item == history[index]
      historyIndex == findIndex(history, item.id)
      h == moveToTop(history, historyIndex, item)
  IN /\ clicks < MaxClicks
     /\ clicks' = clicks + 1
     /\ IF historyIndex > 1
          THEN /\ history' = h
               /\ clipboardHistory' = h
               /\ disk' = saveHistory(disk, h, settings)
          ELSE UNCHANGED <<history, clipboardHistory, disk>>
     /\ clipboard' = item.text
     /\ UNCHANGED <<inbox, isMonitoring, monitoringInterval, isPrivateMode, settings,
                    lastClipboardText, pending, copies,
                    now, openaiApiKey, groqApiKey, serviceVars>>

\* the settings the window's switches send with 'update-settings'
SettingsKeys == {"encryptionEnabled", "inMemoryOnly"}

\* { ...settings, ...newSettings } for what one control of the window sends:
\* one key, or aiEnabled with the keys it clears when it is switched off
merge(s, key, value) ==
  IF key = "encryptionEnabled" THEN [s EXCEPT !.encryptionEnabled = value]
  ELSE IF key = "inMemoryOnly" THEN [s EXCEPT !.inMemoryOnly = value]
  ELSE IF key = "aiEnabled"
    THEN (IF value THEN [s EXCEPT !.aiEnabled = TRUE]
          ELSE [s EXCEPT !.aiEnabled = FALSE, !.openaiApiKey = "", !.groqApiKey = "",
                         !.autoCategorize = FALSE])
  ELSE IF key = "openaiApiKey" THEN [s EXCEPT !.openaiApiKey = value]
  ELSE IF key = "groqApiKey" THEN [s EXCEPT !.groqApiKey = value]
  ELSE [s EXCEPT !.autoCategorize = value]

\* the handler of 'update-settings'
UpdateSettings(key, value) ==
  LET merged == saveSettings(merge(settings, key, value), isPrivateMode) IN
  /\ clicks < MaxClicks
  /\ clicks' = clicks + 1
  /\ merged # settings
  /\ settings' = merged
  /\ IF key \in {"inMemoryOnly", "encryptionEnabled"}
       THEN /\ Len(inbox) < MaxInbox
            /\ clipboardHistory' = loadHistory(disk, clipboardHistory, merged)
            /\ inbox' = Append(inbox, clipboardHistory')
       ELSE UNCHANGED <<clipboardHistory, inbox>>
  /\ disk' = [disk EXCEPT !.settingsFile = merged]
  /\ UNCHANGED <<history, isMonitoring, monitoringInterval, isPrivateMode,
                 lastClipboardText, clipboard, pending, copies,
                 now, openaiApiKey, groqApiKey, serviceVars>>

\* the histories earlier sessions may have left on disk
SavedHistories == {<<>>, OldHistory(MAX_HISTORY)}

\* the state once the application is ready: settings and history loaded, the
\* window created with its copy of the history, monitoring started
MainInit ==
  /\ openaiApiKey = NULL
  /\ groqApiKey = NULL
  /\ op = NoOp
  /\ chat = NoChat
  /\ req = NoReq
  /\ result = NoResult
  /\ obs = Obs0
  /\ other = NoOther
  /\ settings \in SavedSettings
  /\ clipboardHistory \in SavedHistories
  /\ disk = [plain |-> AbsentFile,
             encrypted |-> IF clipboardHistory = <<>> THEN AbsentFile ELSE EncryptedFile(clipboardHistory),
             keyFile |-> clipboardHistory # <<>>,
             settingsFile |-> settings]
  /\ history = clipboardHistory
  /\ inbox = <<>>
  /\ isMonitoring = TRUE
  /\ monitoringInterval = TRUE
  /\ isPrivateMode = settings.privateMode
  /\ lastClipboardText = <<>>
  /\ clipboard = <<>>
  /\ pending = <<>>
  /\ copies = 0
  /\ clicks = 0
  /\ now = MAX_HISTORY + 1
  /\ AssistantStart

MainNext ==
  \/ \E text \in CopyTexts : Copy(text)
  \/ monitorClipboard
  \/ AppDetected
  \/ Categorized
  \/ toggleMonitoring
  \/ togglePrivateMode
  \/ ClearHistory
  \/ HistoryUpdated
  \/ \E index \in 1..MaxPick : index <= Len(history) /\ DeleteItem(index)
  \/ \E index \in 1..MaxPick : index <= Len(history) /\ PasteItem(index)
  \/ \E key \in SettingsKeys, value \in BOOLEAN : UpdateSettings(key, value)

MainSpec == MainInit /\ [][MainNext]_vars

-----------------------------------------------------------------------------
(* The chat assistant: chat-assistant.js, its handlers in main.js, and the
   AI handlers of main.js that call the AI service *)

MaxTasks == 2

\* the names getActiveApp may answer: a chat application, another application
ActiveApps == {<<"S", "l", "a", "c", "k">>, <<"N", "o", "t", "e", "s">>}

\* the name the user puts on the watch list
WatchedNames == {<<"s", "l", "a", "c", "k">>}

\* what the user copies: a message of a chat, a link
IncomingMessage == <<"c", "a", "l", "l", " ", "m", "e", " ", "b", "a", "c", "k">>
LinkText == <<"h", "t", "t", "p", ":", "/", "/", "a", ".", "i", "o">>
MessageTexts == {IncomingMessage, LinkText}

\* the variables of the history that the chat assistant never touches
historyVars == <<clipboardHistory, history, inbox, isMonitoring, monitoringInterval,
                 isPrivateMode, lastClipboardText, pending, now>>

\* the variables of an operation of the AI service
opVars == <<op, chat, req, result, obs>>

\* addWatchedApp
addWatchedApp(watched, appName) ==
  IF \E i \in 1..Len(watched) : watched[i] = appName THEN watched ELSE Append(watched, appName)

\* removeWatchedApp
removeWatchedApp(watched, appName) ==
  LET Remaining(app) == app # appName IN SelectSeq(watched, Remaining)

\* this.watchedApps.some(app => activeApp.toLowerCase().includes(app.toLowerCase()))
matchesEntry(watched, activeApp) ==
  \E i \in 1..Len(watched) : includes(toLowerCase(activeApp), toLowerCase(watched[i]))

\* isWatchedApp of the timer's callback
isWatchedApp(watched, activeApp) == Len(watched) = 0 \/ matchesEntry(watched, activeApp)

\* the test of the timer's callback on the clipboard; at a tick of the
\* 2000 ms timer more than 1000 ms have passed since the last detection
looksLikeMessage(currentClipboard, lastClipboard) ==
  /\ currentClipboard # <<>>
  /\ currentClipboard # lastClipboard
  /\ Len(currentClipboard) > 10
  /\ ~startsWith(currentClipboard, <<"h", "t", "t", "p">>)
  /\ ~startsWith(currentClipboard, <<"h", "t", "t", "p", "s">>)

\* startClipboardMonitoring: a second call while monitoring does nothing
startClipboardMonitoring(a) ==
  IF a.isMonitoring THEN a
  ELSE [a EXCEPT !.isMonitoring = TRUE, !.messageCallbacks = @ + 1,
                 !.lastClipboard = <<>>, !.monitoringInterval = TRUE]

\* stopChatAssistant: chatAssistant.stopMonitoring()
stopChatAssistant(a) ==
  IF ~a.isMonitoring THEN a
  ELSE [a EXCEPT !.isMonitoring = FALSE, !.monitoringInterval = FALSE,
                 !.messageCallbacks = 0]

\* startChatAssistant under the settings s; the detections in flight belong to
\* the closure of the earlier timer from then on
startChatAssistant(s) ==
  IF ~s.chatAssistantEnabled \/ ~s.aiEnabled
    THEN UNCHANGED <<chatAssistant, tasks, openaiApiKey, groqApiKey>>
    ELSE /\ groqApiKey' = IF Truthy(s.groqApiKey) THEN s.groqApiKey ELSE groqApiKey
         /\ openaiApiKey' = IF Truthy(s.openaiApiKey) THEN s.openaiApiKey ELSE openaiApiKey
         /\ chatAssistant' = startClipboardMonitoring(chatAssistant)
         /\ tasks' = IF chatAssistant.isMonitoring THEN tasks
                     ELSE [i \in 1..Len(tasks) |-> [tasks[i] EXCEPT !.current = FALSE]]

\* the handler of 'chat-assistant-toggle', sent by the switch of the window
ChatAssistantToggle ==
  LET enabled == ~settings.chatAssistantEnabled
      s == saveSettings([settings EXCEPT !.chatAssistantEnabled = enabled], isPrivateMode)
  IN /\ handler = ""
     /\ clicks < MaxClicks
     /\ clicks' = clicks + 1
     /\ settings' = s
     /\ disk' = [disk EXCEPT !.settingsFile = s]
     /\ IF enabled
          THEN startChatAssistant(s)
          ELSE /\ chatAssistant' = stopChatAssistant(chatAssistant)
               /\ UNCHANGED <<tasks, openaiApiKey, groqApiKey>>
     /\ UNCHANGED <<historyVars, opVars, other, clipboard, copies, seen, handler>>

\* the handler of 'toggle-auto-send'
ToggleAutoSend ==
  LET s == saveSettings([settings EXCEPT !.autoSendReplies = ~settings.autoSendReplies],
                        isPrivateMode)
  IN /\ handler = ""
     /\ clicks < MaxClicks
     /\ clicks' = clicks + 1
     /\ settings' = s
     /\ disk' = [disk EXCEPT !.settingsFile = s]
     /\ UNCHANGED <<historyVars, opVars, other, clipboard, copies, assistantVars,
                    openaiApiKey, groqApiKey>>

\* the handler of 'add-watched-app'
AddWatchedApp(appName) ==
  LET listed == \E i \in 1..Len(settings.watchedApps) : settings.watchedApps[i] = appName
      s == IF listed THEN settings
           ELSE saveSettings([settings EXCEPT !.watchedApps = Append(@, appName)], isPrivateMode)
  IN /\ handler = ""
     /\ clicks < MaxClicks
     /\ clicks' = clicks + 1
     /\ chatAssistant' = [chatAssistant EXCEPT !.watchedApps = addWatchedApp(@, appName)]
     /\ settings' = s
     /\ disk' = IF listed THEN disk ELSE [disk EXCEPT !.settingsFile = s]
     /\ UNCHANGED <<historyVars, opVars, other, clipboard, copies, tasks, seen, handler,
                    openaiApiKey, groqApiKey>>

\* the handler of 'remove-watched-app'
RemoveWatchedApp(appName) ==
  LET s == saveSettings([settings EXCEPT !.watchedApps = removeWatchedApp(@, appName)],
                        isPrivateMode)
  IN /\ handler = ""
     /\ clicks < MaxClicks
     /\ clicks' = clicks + 1
     /\ chatAssistant' = [chatAssistant EXCEPT !.watchedApps = removeWatchedApp(@, appName)]
     /\ settings' = s
     /\ disk' = [disk EXCEPT !.settingsFile = s]
     /\ UNCHANGED <<historyVars, opVars, other, clipboard, copies, tasks, seen, handler,
                    openaiApiKey, groqApiKey>>

\* the user copies a text
CopyMessage(text) ==
  /\ handler = ""
  /\ copies < MaxCopies
  /\ clipboard # text
  /\ clipboard' = text
  /\ copies' = copies + 1
  /\ seen' = [seen EXCEPT !.written = FALSE]
  /\ UNCHANGED <<historyVars, opVars, other, settings, disk, clicks, chatAssistant, tasks,
                 handler, openaiApiKey, groqApiKey>>

\* a detection of the chat assistant: the text, the stage it is suspended at,
\* the answer of getActiveApp, whether that answer matched an entry of the
\* watch list, whether the text was written by sendReply, whether the timer
\* that made the detection is the one now set
Detection(text, stage, app, matched, own, current) ==
  [message |-> text, stage |-> stage, app |-> app, matched |-> matched, own |-> own,
   current |-> current]

\* a tick of the timer of startClipboardMonitoring that finds a text that looks
\* like a message: getActiveApp is called
ClipboardTick ==
  /\ handler = ""
  /\ chatAssistant.monitoringInterval
  /\ looksLikeMessage(clipboard, chatAssistant.lastClipboard)
  /\ Len(tasks) < MaxTasks
  /\ tasks' = Append(tasks, Detection(clipboard, "getActiveApp", <<>>, FALSE, seen.written, TRUE))
  /\ UNCHANGED <<historyVars, opVars, other, settings, disk, clicks, clipboard, copies,
                 chatAssistant, seen, handler, openaiApiKey, groqApiKey>>

\* the larger of two numbers
Larger(x, y) == IF x > y THEN x ELSE y

\* the end of handleNewMessage and the then of the timer's callback, with the
\* callback of startChatAssistant: every callback of messageCallbacks is called
\* with the reply (which may be null, here the empty text), then the callback
\* of the closure is called again when there is a reply; each call sends the
\* reply when autoSendReplies is on: sendReply writes it to the clipboard and
\* waits 100 ms before it pastes
Notify(reply, task, rest) ==
  LET again == IF reply # <<>> THEN 1 ELSE 0
      calls == chatAssistant.messageCallbacks + again
      sends == IF settings.autoSendReplies /\ reply # <<>> THEN calls ELSE 0
  IN /\ clipboard' = IF sends > 0 THEN reply ELSE clipboard
     /\ tasks' = rest \o [k \in 1..sends |->
                            [task EXCEPT !.stage = "sendReply", !.message = reply]]
     /\ seen' = [calls |-> Larger(seen.calls, calls), sent |-> Larger(seen.sent, sends),
                 written |-> IF sends > 0 THEN TRUE ELSE seen.written]

\* the message handed to aiService.generateReply by generateReply of the
\* chat assistant, as an entry of ReplyInputs
limitedInput(text, appName) ==
  [isArray |-> FALSE,
   contents |-> <<IF Len(text) > 5000 THEN 5000 + Len(Ellipsis) ELSE Len(text)>>,
   context |-> Len(appName)]

\* getActiveApp answers: the test of the watch list, then handleNewMessage up
\* to the request of generateReply
ActiveAppKnown ==
  \E i \in 1..Len(tasks), activeApp \in ActiveApps :
    LET task == tasks[i]
        rest == Without(tasks, i)
        found == [task EXCEPT !.app = activeApp,
                              !.matched = matchesEntry(chatAssistant.watchedApps, activeApp)]
    IN /\ handler = ""
       /\ task.stage = "getActiveApp"
       /\ IF ~isWatchedApp(chatAssistant.watchedApps, activeApp)
            THEN /\ tasks' = rest
                 /\ UNCHANGED <<chatAssistant, clipboard, seen, opVars>>
            ELSE /\ chatAssistant' = IF task.current
                                       THEN [chatAssistant EXCEPT !.lastClipboard = task.message]
                                       ELSE chatAssistant
                 /\ IF Len(task.message) > 10000
                      THEN /\ tasks' = rest
                           /\ UNCHANGED <<clipboard, seen, opVars>>
                      ELSE IF Len(task.message) > 8000
                        THEN /\ Notify(<<>>, found, rest)
                             /\ UNCHANGED opVars
                        ELSE /\ Idle
                             /\ \E ref \in ReplyRefs :
                                  /\ ReplyInputs[ref] = limitedInput(task.message, activeApp)
                                  /\ InstallOp([op |-> ReplyOp(ref),
                                                out |-> generateReply(ObsAtCall, ReplyInputs[ref])])
                             /\ tasks' = Append(rest, [found EXCEPT !.stage = "generateReply"])
                             /\ UNCHANGED <<clipboard, seen>>
       /\ UNCHANGED <<historyVars, other, settings, disk, clicks, copies, handler,
                      openaiApiKey, groqApiKey>>

\* aiService.generateReply settles: generateReply of the chat assistant gives
\* the trimmed reply, or null when the call threw or answered nothing
ReplyGenerated ==
  \E i \in 1..Len(tasks) :
    LET reply == IF /\ result.status = "returned"
                    /\ result.value.type = "string"
                    /\ result.value.chars # <<>>
                   THEN trim(result.value.chars)
                   ELSE <<>>
    IN /\ handler = ""
       /\ tasks[i].stage = "generateReply"
       /\ result.status \in {"returned", "threw"}
       /\ Notify(reply, tasks[i], Without(tasks, i))
       /\ op' = NoOp
       /\ chat' = NoChat
       /\ req' = NoReq
       /\ result' = NoResult
       /\ obs' = Obs0
       /\ UNCHANGED <<historyVars, other, settings, disk, clicks, copies, chatAssistant,
                      handler, openaiApiKey, groqApiKey>>

\* the 100 ms timer of sendReply fires: simulatePaste()
ReplyPasted ==
  \E i \in 1..Len(tasks) :
    /\ handler = ""
    /\ tasks[i].stage = "sendReply"
    /\ tasks' = Without(tasks, i)
    /\ UNCHANGED <<historyVars, opVars, other, settings, disk, clicks, clipboard, copies,
                   chatAssistant, seen, handler, openaiApiKey, groqApiKey>>

\* the handler of 'smart-paste' up to its call of aiService.smartPaste: the
\* test of the settings, the keys of the settings that are set
SmartPasteHandler ==
  /\ handler = ""
  /\ Idle
  /\ clicks < MaxClicks
  /\ settings.aiEnabled
  /\ Truthy(settings.openaiApiKey) \/ Truthy(settings.groqApiKey)
  /\ clicks' = clicks + 1
  /\ openaiApiKey' = IF Truthy(settings.openaiApiKey) THEN settings.openaiApiKey ELSE openaiApiKey
  /\ groqApiKey' = IF Truthy(settings.groqApiKey) THEN settings.groqApiKey ELSE groqApiKey
  /\ handler' = "smart-paste"
  /\ UNCHANGED <<historyVars, opVars, other, settings, disk, clipboard, copies,
                 chatAssistant, tasks, seen>>

\* the same run of the handler of 'smart-paste': aiService.smartPaste(text, options)
SmartPasteCall(len, options) ==
  /\ handler = "smart-paste"
  /\ InstallOp([op |-> PasteOp(len, options), out |-> smartPaste(ObsAtCall, len, options)])
  /\ handler' = ""
  /\ UNCHANGED <<historyVars, other, settings, disk, clicks, clipboard, copies,
                 chatAssistant, tasks, seen, openaiApiKey, groqApiKey>>

\* the handler of 'smart-paste' returns the outcome to the window
SmartPasteSettled == op.name = "smartPaste" /\ Settle

\* what a provider answers in the sessions of the chat assistant: a completion,
\* or the rejection of the key
AssistantBodies(o) == {OkBody(c) : c \in Contents(o)} \cup {ErrorBody(InvalidKeyMessage)}

\* the response to the request in flight
ProviderAnswers ==
  /\ req.state = "inflight"
  /\ \E body \in AssistantBodies(op) :
       Deliver(OnResponseEnd([obs EXCEPT !.open = @ - 1], req, body))

\* the settings of a user of the chat assistant: AI on with both keys, the
\* assistant on, the watch list empty or not, replies sent automatically or not
AssistantSettings ==
  {[DefaultSettings EXCEPT !.aiEnabled = TRUE, !.openaiApiKey = "sk-1", !.groqApiKey = "sk-1",
                           !.chatAssistantEnabled = TRUE, !.watchedApps = watched,
                           !.autoSendReplies = autoSend] :
     watched \in {<<>>} \cup {<<name>> : name \in WatchedNames}, autoSend \in BOOLEAN}

\* the state once the application is ready: the keys of the settings set, the
\* watched applications added, the chat assistant started
AssistantInit ==
  /\ settings \in AssistantSettings
  /\ openaiApiKey = settings.openaiApiKey
  /\ groqApiKey = settings.groqApiKey
  /\ op = NoOp
  /\ chat = NoChat
  /\ req = NoReq
  /\ result = NoResult
  /\ obs = Obs0
  /\ other = NoOther
  /\ clipboardHistory = <<>>
  /\ history = <<>>
  /\ inbox = <<>>
  /\ isMonitoring = TRUE
  /\ monitoringInterval = TRUE
  /\ isPrivateMode = settings.privateMode
  /\ lastClipboardText = <<>>
  /\ clipboard = <<>>
  /\ disk = [EmptyDisk EXCEPT !.settingsFile = settings]
  /\ pending = <<>>
  /\ copies = 0
  /\ clicks = 0
  /\ now = MAX_HISTORY + 1
  /\ chatAssistant = startClipboardMonitoring([NoAssistant EXCEPT !.watchedApps = settings.watchedApps])
  /\ tasks = <<>>
  /\ seen = NoSeen
  /\ handler = ""

AssistantNext ==
  \/ \E text \in MessageTexts : CopyMessage(text)
  \/ ClipboardTick
  \/ ActiveAppKnown
  \/ ReplyGenerated
  \/ ReplyPasted
  \/ ChatAssistantToggle
  \/ ToggleAutoSend
  \/ \E appName \in WatchedNames : AddWatchedApp(appName)
  \/ \E appName \in WatchedNames : RemoveWatchedApp(appName)
  \/ handler = "" /\ UpdateSettings("aiEnabled", FALSE)
  \/ handler = "" /\ UpdateSettings("openaiApiKey", "")
  \/ SmartPasteHandler
  \/ \E options \in PasteOptions : SmartPasteCall(MAX_INPUT_LENGTH, options)
  \/ SmartPasteSettled
  \/ ProviderAnswers

AssistantSpec == AssistantInit /\ [][AssistantNext]_vars

Init ==
  /\ openaiApiKey = NULL
  /\ groqApiKey = NULL
  /\ op = NoOp
  /\ chat = NoChat
  /\ req = NoReq
  /\ result = NoResult
  /\ obs = Obs0
  /\ other = NoOther
  /\ MainStart

Next ==
  \/ \E key \in KeyValues : setOpenAIKey(key)
  \/ \E key \in KeyValues : setGroqKey(key)
  \/ \E messages \in ChatMessages, systemPrompt \in SystemPrompts, provider \in Providers :
       CallChatCompletion(messages, systemPrompt, provider)
  \/ \E ref \in TextRefs : CallCategorizeText(ref)
  \/ \E ref \in SearchRefs : CallSemanticSearch(ref)
  \/ Response
  \/ RequestError
  \/ RetryTimer
  \/ Settle

Spec == Init /\ [][Next]_vars

\* the orchestrator called directly, as smartPaste, formatText and generateReply
\* call it, without the operations that post-process its outcome
ChatNext ==
  \/ \E key \in KeyValues : setOpenAIKey(key)
  \/ \E key \in KeyValues : setGroqKey(key)
  \/ \E messages \in ChatMessages, systemPrompt \in SystemPrompts, provider \in Providers :
       CallChatCompletion(messages, systemPrompt, provider)
  \/ Response
  \/ RequestError
  \/ RetryTimer
  \/ Settle

\* inputs of the call that runs beside the second one
PeerMessages == {<<7999>>}

\* two independent calls side by side, on the same provider and credential: a
\* chatCompletion and a generateEmbedding
ConcurrentNext ==
  \/ \E key \in KeyValues : setOpenAIKey(key)
  \/ \E key \in KeyValues : setGroqKey(key)
  \/ \E messages \in PeerMessages : CallChatCompletion(messages, -1, "openai")
  \/ Response
  \/ RequestError
  \/ RetryTimer
  \/ Settle
  \/ OtherCall
  \/ OtherResponse
  \/ OtherRequestError
  \/ OtherRetryTimer
  \/ OtherSettle

ConcurrentSpec == Init /\ [][ConcurrentNext]_vars

\* the operations that hand a text to the orchestrator and return what it
\* answers: smartPaste, formatText, generateReply
TextNext ==
  \/ \E key \in KeyValues : setOpenAIKey(key)
  \/ \E key \in KeyValues : setGroqKey(key)
  \/ \E len \in TextLengths, options \in PasteOptions : CallSmartPaste(len, options)
  \/ \E len \in TextLengths, formatType \in FormatTypes : CallFormatText(len, formatType)
  \/ \E ref \in ReplyRefs : CallGenerateReply(ref)
  \/ Response
  \/ RequestError
  \/ RetryTimer
  \/ Settle

TextSpec == Init /\ [][TextNext]_vars

\* batchCategorize called on its own
BatchNext ==
  \/ \E key \in KeyValues : setOpenAIKey(key)
  \/ \E key \in KeyValues : setGroqKey(key)
  \/ \E items \in BatchInputs : CallBatchCategorize(items)
  \/ Response
  \/ RequestError
  \/ RetryTimer
  \/ Settle

BatchSpec == Init /\ [][BatchNext]_vars

\* the synchronous functions alone, each applied once to arguments drawn from
\* the tables of inputs
PureInit ==
  /\ openaiApiKey = NULL
  /\ groqApiKey = NULL
  /\ op \in {HeuristicOp(text) : text \in HeuristicTexts}
            \cup {SimilarityOp(vecA, vecB) : vecA \in VectorArguments, vecB \in Vectors}
            \cup {TruncateOp(text, maxLength) : text \in HeuristicTexts, maxLength \in 0..MaxCut}
  /\ chat = NoChat
  /\ req = NoReq
  /\ result = NoResult
  /\ obs = Obs0
  /\ other = NoOther
  /\ MainStart

PureNext ==
  \/ ApplyFallbackCategorize
  \/ ApplyCosineSimilarity
  \/ ApplyTruncateText

PureSpec == PureInit /\ [][PureNext]_vars

\* every request in flight gets its response or fails, every timer fires
FairSpec ==
  /\ Init /\ [][ChatNext]_vars
  /\ WF_vars(Response \/ RequestError)
  /\ WF_vars(RetryTimer)

----------------------------------------------------------------------------
(* Properties *)

Settling == result.status \in {"returned", "threw"}

\* the outcome of chatCompletion is the settlement of the gateway on `provider`:
\* its error, or the content of its response
IsOutcomeOf(provider) ==
  /\ result.via = provider
  /\ obs.gateway.provider = provider
  /\ obs.gateway.status = "rejected" =>
       result.status = "threw" /\ result.error = obs.gateway.error
  /\ obs.gateway.status = "resolved" =>
       \/ result.status = "returned" /\ result.value = obs.gateway.content
       \/ result.status = "threw" /\ result.error = ShapeError(provider)

\* C1: when the groq leg of a chatCompletion call fails, whatever the error, and
\* openaiApiKey is set at that moment, the same messages are sent to openai, and
\* what the caller gets is the outcome of the openai leg, never the groq error.
C1_FallbackToPrimary ==
  (op.name = "chatCompletion" /\ obs.groqFail.happened /\ obs.groqFail.primarySet) =>
     /\ obs.switches = 1
     /\ obs.http["openai"] >= 1
     /\ chat.active => (chat.provider = "openai" /\ chat.messages = op.messages
                        /\ chat.systemPrompt = op.systemPrompt)
     /\ Settling => IsOutcomeOf("openai")

\* the groq leg failed after its whole retry chain, and the call returned the
\* answer of openai
C1_Witness ==
  /\ op.name = "chatCompletion" /\ op.provider = "groq"
  /\ obs.groqFail.happened /\ obs.groqFail.primarySet
  /\ obs.http["groq"] = maxRetries + 1
  /\ result.status = "returned"

\* C2: a step that issues an HTTP request to a provider finds that provider's
\* credential set in the state it issues it in, and sends that credential.
C2_NoRequestWithoutCredential ==
  [][\A p \in Providers :
       obs'.http[p] > obs.http[p] =>
         /\ Truthy(IF p = "groq" THEN groqApiKey' ELSE openaiApiKey')
         /\ req'.state = "inflight" /\ req'.provider = p
         /\ req'.key = (IF p = "groq" THEN groqApiKey' ELSE openaiApiKey')]_vars

\* a retry found the credential cleared during the backoff and failed before
\* any request
C2_Witness ==
  /\ obs.gateway.status = "rejected"
  /\ obs.gateway.retryCount >= 1
  /\ obs.gateway.error = MissingKeyError(obs.gateway.provider)
  /\ obs.chain = obs.gateway.retryCount

\* C3: one makeRequest chain issues at most maxRetries + 1 = 4 HTTP requests,
\* and no retry is scheduled once the attempt counter is 3.
C3_RetryCeiling ==
  /\ obs.chain <= maxRetries + 1
  /\ req.retryCount <= maxRetries
  /\ req.state = "timer" => req.retryCount < maxRetries
  /\ req.state = "inflight" => obs.chain = req.retryCount + 1

\* a rate-limit error answered the fourth request and was rejected to the caller
C3_Witness ==
  /\ obs.gateway.status = "rejected"
  /\ obs.gateway.retryCount = maxRetries
  /\ isRateLimitError(obs.gateway.error.message)
  /\ obs.chain = maxRetries + 1

\* C4: with every request answered and every timer fired, a chatCompletion call
\* settles; it is re-run on another provider at most once, never towards groq,
\* and issues at most 2 * (maxRetries + 1) = 8 HTTP requests.
C4_ChatCompletionTerminates ==
  /\ [](/\ obs.switches <= 1
        /\ ~obs.toFast
        /\ op.name \in {"chatCompletion", "categorizeText"} =>
             obs.http["groq"] + obs.http["openai"] <= 2 * (maxRetries + 1))
  /\ [](result.status = "pending" => <>Settling)

\* a call that used all eight requests and settled
C4_Witness ==
  /\ op.name = "chatCompletion"
  /\ obs.http["groq"] = maxRetries + 1 /\ obs.http["openai"] = maxRetries + 1
  /\ obs.switches = 1
  /\ Settling

\* C5: a chatCompletion call that prefers groq, with more than 4000 estimated
\* tokens and openaiApiKey set, sends nothing to groq, is handled by openai, and
\* gives its caller the outcome of openai.
C5_OversizeHandledByPrimary ==
  (/\ op.name = "chatCompletion" /\ op.provider = "groq"
   /\ estimateTokens(TotalTextLength(op.messages, op.systemPrompt)) > MaxRequestTokens
   /\ obs.primaryAtCall) =>
     /\ obs.http["groq"] = 0
     /\ obs.rerouted
     /\ obs.http["openai"] >= 1
     /\ Settling => IsOutcomeOf("openai")

\* C6: categorizeText never throws and returns one of the 11 labels, whatever
\* the text, the credentials and the provider's behaviour.
C6_CategorizeTotal ==
  op.name = "categorizeText" =>
    /\ result.status # "threw"
    /\ result.status = "returned" =>
         result.value.type = "label" /\ result.value.label \in Labels

\* both credentials absent: no request was made and the heuristic label came back
C6_Witness ==
  /\ op.name = "categorizeText"
  /\ ~Truthy(groqApiKey) /\ ~Truthy(openaiApiKey)
  /\ obs.groqFail.happened /\ ~obs.groqFail.primarySet
  /\ obs.http["groq"] = 0 /\ obs.http["openai"] = 0
  /\ result.status = "returned" /\ result.value.label = "email"

\* C7: semanticSearch never throws; it returns a list, from a path after every
\* path that failed, the last being the keyword fallback.
C7_SearchNeverThrows ==
  op.name = "semanticSearch" =>
    /\ result.status # "threw"
    /\ result.status = "returned" =>
         /\ result.value.type = "list"
         /\ "embedding" \in obs.failed => op.phase \in {"llm", "keyword"}
         /\ "llm" \in obs.failed => op.phase = "keyword"
         /\ op.phase = "keyword" =>
              result.value.items = KeywordResults(safeQueryOf(op.input),
                                                  SearchInputs[op.input].items,
                                                  SearchInputs[op.input].limit)

\* both providers were asked, both paths failed, the keyword fallback answered
C7_Witness ==
  /\ op.name = "semanticSearch"
  /\ obs.failed = {"embedding", "llm"}
  /\ obs.http["openai"] >= 1 /\ obs.http["groq"] >= 1
  /\ result.status = "returned" /\ op.phase = "keyword"
  /\ result.value.items # <<>>

\* the gateway rejected and no other provider could be tried: the call was on
\* openai, or it was on groq and openaiApiKey was absent
NoFallbackLeft ==
  /\ obs.gateway.status = "rejected"
  /\ \/ obs.gateway.provider = "openai"
     \/ obs.gateway.provider = "groq" /\ obs.groqFail.happened /\ ~obs.groqFail.primarySet

\* C8: with no fallback provider left, chatCompletion rejects with the very error
\* of the gateway and no request goes to the other provider.
C8_ErrorPropagatesUnchanged ==
  (op.name = "chatCompletion" /\ NoFallbackLeft) =>
     /\ result.status = "threw"
     /\ result.error = obs.gateway.error
     /\ result.via = obs.gateway.provider
     /\ obs.gateway.provider = "groq" => obs.http["openai"] = 0
     /\ op.provider = "openai" => obs.http["groq"] = 0

\* groq was rate limited four times, openaiApiKey was absent: the rate-limit
\* error reached the caller
C8_Witness ==
  /\ op.name = "chatCompletion" /\ op.provider = "groq"
  /\ NoFallbackLeft /\ obs.gateway.provider = "groq"
  /\ obs.gateway.retryCount = maxRetries
  /\ result.status = "threw" /\ isRateLimitError(result.error.message)

\* C9, as claimed: once a chain has scheduled a retry, it rejects only at attempt
\* counter 3.
C9_NoErrorBeforeCeiling ==
  (obs.retried /\ obs.gateway.status = "rejected") =>
     obs.gateway.retryCount = maxRetries

\* C9, amended: a rate-limit error is rejected to the caller only at attempt
\* counter 3, after three retries; other failures are rejected where they occur.
C9_NoRateLimitErrorBeforeCeiling ==
  (obs.gateway.status = "rejected" /\ isRateLimitError(obs.gateway.error.message)) =>
     obs.gateway.retryCount = maxRetries /\ obs.retried

\* openai answered its fourth request with an advised wait and the chain rejected
C9_Witness ==
  /\ obs.retried
  /\ obs.gateway.status = "rejected" /\ obs.gateway.provider = "openai"
  /\ obs.gateway.error.message = RateLimitWaitMessage
  /\ obs.gateway.retryCount = maxRetries

\* chatCompletion returned a string in which no category name occurs
AnswerMatchesNothing ==
  /\ op.name = "categorizeText"
  /\ result.status = "returned" /\ result.via # ""
  /\ obs.gateway.status = "resolved" /\ obs.gateway.content.type = "string"
  /\ \A i \in 1..Len(categories) :
       ~includes(toLowerCase(trim(obs.gateway.content.chars)), LabelText(categories[i]))

\* C10, as claimed: an answer matching no category gives the label of
\* fallbackCategorize on the input text.
C10_NoMatchUsesHeuristic ==
  AnswerMatchesNothing => result.value.label = fallbackCategorize(TextOf(op.text))

\* C10, amended: an answer matching no category gives the label 'other'.
C10_NoMatchIsOther ==
  AnswerMatchesNothing => result.value.label = "other"

\* the answer matched nothing for a text the heuristic classifier calls an email
C10_Witness ==
  /\ AnswerMatchesNothing
  /\ fallbackCategorize(TextOf(op.text)) = "email"

\* C11: batchCategorize never throws; it returns one entry per item, in input
\* order, each with a category of the fixed set, 'other' for an item whose
\* categorization threw.
C11_BatchNeverAborts ==
  op.name = "batchCategorize" =>
    /\ result.status # "threw"
    /\ result.status = "returned" =>
         /\ result.value.type = "batch"
         /\ Len(result.value.entries) = Len(op.items)
         /\ \A i \in 1..Len(op.items) :
              /\ result.value.entries[i].text = op.items[i]
              /\ result.value.entries[i].category \in Labels
              /\ op.items[i] = NumberText => result.value.entries[i].category = "other"

\* the first item threw and is labelled 'other', the second was labelled by a provider
C11_Witness ==
  /\ op.name = "batchCategorize" /\ result.status = "returned"
  /\ Len(op.items) = 2 /\ op.items[1] = NumberText
  /\ result.value.entries[1].category = "other"
  /\ obs.gateway.status = "resolved"
  /\ result.value.entries[2].category = "code"

\* C12: within a batchCategorize call at most one request is unanswered at any
\* time, backoff waits and the fallback to openai included, and while the
\* request or the wait of an item is pending every item before it has its entry.
C12_BatchSequential ==
  op.name = "batchCategorize" =>
    /\ obs.open <= 1
    /\ obs.open = 1 <=> req.state = "inflight"
    /\ req.state \in {"inflight", "timer"} =>
         /\ op.index \in 1..Len(op.items)
         /\ Len(op.results) = op.index - 1

\* the second item's request is on openai after groq failed, the first item is done
C12_Witness ==
  /\ op.name = "batchCategorize"
  /\ op.index = 2 /\ Len(op.results) = 1 /\ op.results[1].category = "email"
  /\ req.state = "inflight" /\ req.provider = "openai"
  /\ obs.http["groq"] >= 2
  /\ obs.retried

\* C13: a call in its backoff wait blocks no other call. Whenever the first
\* operation waits for its retry timer the second call can be made, it issues
\* its request under its own attempt counter 0, and its response can be taken;
\* each chain counts its own requests, and no step of one call changes the other.
C13_BackoffBlocksNobody ==
  /\ [](/\ (req.state = "timer" /\ other.status = "idle") => ENABLED OtherCall
        /\ (req.state = "timer" /\ other.req.state = "inflight") => ENABLED OtherResponse
        /\ other.req.state = "inflight" => other.obs.chain = other.req.retryCount + 1
        /\ req.state = "inflight" => obs.chain = req.retryCount + 1)
  /\ [][/\ (OtherCall /\ Truthy(openaiApiKey)) =>
             (other'.req.state = "inflight" /\ other'.req.retryCount = 0)
        /\ other' # other => UNCHANGED <<op, chat, req, result, obs>>
        /\ <<op, chat, req, result, obs>>' # <<op, chat, req, result, obs>> =>
             other' = other]_vars

\* the second call was made and answered while the first one waits for its
\* second retry
C13_Witness ==
  /\ req.state = "timer" /\ req.retryCount = 1
  /\ other.duringWait
  /\ other.status = "returned"
  /\ other.obs.http["openai"] = 1

\* no request was made and none is pending
NoRequestIssued ==
  /\ obs.http["groq"] = 0 /\ obs.http["openai"] = 0
  /\ req.state = "none"

\* length of the instruction that precedes the text in the prompt of smartPaste
\* or formatText
InstructionLength ==
  IF op.name = "smartPaste"
    THEN PastePromptLength(op.options) + TextSeparatorLength
    ELSE FormatPromptLength(op.formatType)

\* C14: smartPaste and formatText reject a text of more than 12000 characters
\* with a too-large error and without any request; for any other text the prompt
\* holds the text itself when it has at most 8000 characters, else its first 8000
\* characters and the 3-character marker.
C14_SizeGate ==
  op.name \in {"smartPaste", "formatText"} =>
    IF op.length > MAX_TEXT_LENGTH
      THEN /\ result.status = "threw"
           /\ Includes(result.error.message, "too large")
           /\ NoRequestIssued
           /\ obs.chars = 0
      ELSE /\ obs.chars - 1 - InstructionLength =
                IF op.length <= MAX_INPUT_LENGTH THEN op.length ELSE MAX_INPUT_LENGTH + 3
           /\ obs.chars - 1 - InstructionLength <= MAX_INPUT_LENGTH + 3

\* a text of 12000 characters went into the prompt of formatText as 8003
\* characters and the provider's answer came back
C14_Witness ==
  /\ op.name = "formatText" /\ op.length = MAX_TEXT_LENGTH
  /\ obs.chars - 1 - InstructionLength = MAX_INPUT_LENGTH + 3
  /\ obs.http["groq"] >= 1
  /\ result.status = "returned"

\* a text cut at max characters, the marker added
Capped(len, max) == IF len <= max THEN len ELSE max + 3

\* length of the prompt of generateReply as the claim describes it: the first 5
\* messages, each cut at 8000, labelled and separated, and the context cut at 500
ReplyPromptAsDescribed ==
  LET input == ReplyInputs[op.input]
      kept == IF Len(input.contents) < MaxReplyMessages
                THEN Len(input.contents) ELSE MaxReplyMessages
      messagesPart ==
        IF input.isArray
          THEN Sum([i \in 1..kept |->
                      MessageLabelLength + Capped(input.contents[i], MAX_INPUT_LENGTH)])
                 + (IF kept > 0 THEN MessageSeparatorLength * (kept - 1) ELSE 0)
          ELSE Capped(input.contents[1], MAX_INPUT_LENGTH)
      contextPart ==
        IF input.context > 0
          THEN ContextLabelLength + Capped(input.context, MaxContextLength)
          ELSE 0
  IN ReplyPromptFixedLength + contextPart + messagesPart

\* C15: generateReply builds its prompt from the first 5 messages at most, each
\* cut at 8000 characters, and a context cut at 500; when that prompt has more
\* than 3000 estimated tokens it rejects and makes no request; otherwise that
\* prompt is what it hands to chatCompletion.
C15_ReplyPromptGate ==
  op.name = "generateReply" =>
    IF estimateTokens(ReplyPromptAsDescribed) > MaxReplyTokens
      THEN /\ result.status = "threw"
           /\ result.error = MessagesTooLargeError
           /\ NoRequestIssued
           /\ obs.chars = 0
      ELSE obs.chars = ReplyPromptAsDescribed + 1

\* six messages were given, five went into a prompt of 2923 tokens, and the
\* answer came back
C15_Witness ==
  /\ op.name = "generateReply"
  /\ Len(ReplyInputs[op.input].contents) > MaxReplyMessages
  /\ obs.tokens = 2924
  /\ obs.http["groq"] >= 1
  /\ result.status = "returned"

\* the call is a chatCompletion whose totalText has more than 4000 estimated tokens
OversizeChat ==
  /\ op.name = "chatCompletion"
  /\ estimateTokens(TotalTextLength(op.messages, op.systemPrompt)) > MaxRequestTokens

\* C16: a chatCompletion call with more than 4000 estimated tokens and no
\* alternative provider (openai was selected, or openaiApiKey was absent at the
\* call) fails with the 'too large' error and no request is made.
C16_OversizeWithoutAlternative ==
  (OversizeChat /\ (op.provider = "openai" \/ ~obs.primaryAtCall)) =>
     /\ result.status = "threw"
     /\ result.error = TooLargeError(obs.tokens)
     /\ Includes(result.error.message, "too large")
     /\ NoRequestIssued

\* groq was selected with its key set and no openaiApiKey: the oversize call
\* was rejected before any request
C16_Witness ==
  /\ OversizeChat /\ op.provider = "groq"
  /\ Truthy(groqApiKey) /\ ~obs.primaryAtCall
  /\ obs.tokens > MaxRequestTokens
  /\ result.status = "threw"
  /\ obs.http["groq"] = 0

\* C17: categorizeText of a text of more than 1000 characters makes no request,
\* whatever the credentials, and returns the label the heuristic classifier
\* gives to the whole text.
C17_LargeTextUsesHeuristic ==
  (op.name = "categorizeText" /\ Len(TextOf(op.text)) > MAX_CATEGORIZE_LENGTH) =>
     /\ NoRequestIssued
     /\ obs.chars = 0
     /\ result.status = "returned"
     /\ result.value = LabelValue(fallbackCategorize(TextOf(op.text)))

\* both credentials were set and a text of 1001 characters, "{" followed by
\* 1000 letters, was labelled json without any request
C17_Witness ==
  /\ op.name = "categorizeText"
  /\ Len(TextOf(op.text)) = MAX_CATEGORIZE_LENGTH + 1
  /\ Truthy(groqApiKey) /\ Truthy(openaiApiKey)
  /\ NoRequestIssued
  /\ result.status = "returned" /\ result.value.label = "json"

\* the test that the heuristic classifier makes for a label
HeuristicTest(label, text) ==
  CASE label = "email" -> includes(text, <<"@">>) /\ includes(text, <<".">>)
    [] label = "link" -> startsWith(text, <<"h", "t", "t", "p", ":", "/", "/">>) \/ startsWith(text, <<"h", "t", "t", "p", "s", ":", "/", "/">>)
    [] label = "number" ->
         LET t == trim(text) IN t # <<>> /\ \A i \in 1..Len(t) : t[i] \in Digits
    [] label = "json" -> includes(text, <<"{">>) \/ includes(text, <<"[">>)
    [] label = "html" -> includes(text, <<"<">>) /\ includes(text, <<">">>)
    [] label = "xml" -> includes(text, <<"<", "?", "x", "m", "l">>) \/ includes(text, <<"<", "x", "m", "l">>)
    [] label = "code" ->
         \/ includes(text, <<"f", "u", "n", "c", "t", "i", "o", "n">>)
         \/ includes(text, <<"c", "o", "n", "s", "t", " ">>)
         \/ includes(text, <<"v", "a", "r", " ">>)
         \/ includes(text, <<"c", "l", "a", "s", "s", " ">>)
    [] label = "command" ->
         \/ startsWith(text, <<"#", "!">>)
         \/ startsWith(text, <<"s", "u", "d", "o", " ">>)
         \/ startsWith(text, <<"n", "p", "m", " ">>)
         \/ startsWith(text, <<"g", "i", "t", " ">>)

\* the order in which the tests are made, and the order the description gives
TestOrder == <<"email", "link", "number", "json", "html", "code", "xml", "command">>
DescribedOrder == <<"email", "link", "number", "json", "html", "xml", "code", "command">>

\* the label of the first test of the order that the text meets, or the default
FirstMatch(order, text, default) ==
  IF \E i \in 1..Len(order) : HeuristicTest(order[i], text)
    THEN order[CHOOSE i \in 1..Len(order) :
                 /\ HeuristicTest(order[i], text)
                 /\ \A j \in 1..(i - 1) : ~HeuristicTest(order[j], text)]
    ELSE default

HeuristicApplied ==
  op.name = "fallbackCategorize" /\ result.status = "returned"

\* C18 as stated: the heuristic classifier gives the label of the first test met
\* in the order email, link, number, json, html, xml, code, command, and note to
\* every text that meets none.
C18_FirstMatchAsDescribed ==
  HeuristicApplied =>
    result.value = LabelValue(FirstMatch(DescribedOrder, op.text, "note"))

\* C18: the heuristic classifier gives other to the empty text, and to any other
\* text the label of the first test met in the order email, link, number, json,
\* html, code, xml, command, and note when the text meets none.
C18_FirstMatchInCodeOrder ==
  HeuristicApplied =>
    result.value = LabelValue(IF op.text = <<>> THEN "other"
                              ELSE FirstMatch(TestOrder, op.text, "note"))

\* a text that meets the xml test and the code test, and no test made before
\* them, was labelled code
C18_Witness ==
  /\ HeuristicApplied
  /\ HeuristicTest("xml", op.text) /\ HeuristicTest("code", op.text)
  /\ ~HeuristicTest("html", op.text)
  /\ result.value.label = "code"

\* the case of a semanticSearch that the embedding path answered
EmbeddingPathAnswered ==
  /\ op.name = "semanticSearch" /\ op.phase = "embedding"
  /\ result.status = "returned"

\* the guard of cosineSimilarity (line 392) gives 0 for this candidate: the
\* query's embedding is missing, or the lengths differ
DegenerateFor(queryEmbedding, item) ==
  \/ queryEmbedding.type # "vector"
  \/ Len(queryEmbedding.vec) # Len(item.embedding)

\* C19: when no candidate carries an embedding, or when the similarity of every
\* candidate that carries one degenerates to 0, the embedding path returns
\* nothing: what it returns, it returns with a candidate whose similarity was
\* computed.
C19_DegenerateFallsThrough ==
  EmbeddingPathAnswered =>
    \E i \in 1..Len(limitedItemsOf(op.input)) :
       /\ Len(limitedItemsOf(op.input)[i].embedding) > 0
       /\ ~DegenerateFor(obs.gateway.content, limitedItemsOf(op.input)[i])

SimilarityApplied ==
  op.name = "cosineSimilarity" /\ result.status = "returned"

\* either vector is missing or empty, the lengths differ, or a norm is zero
DegenerateVectors ==
  \/ op.vecA.type # "vector"
  \/ op.vecA.vec = <<>> \/ op.vecB = <<>>
  \/ Len(op.vecA.vec) # Len(op.vecB)
  \/ Dot(op.vecA.vec, op.vecA.vec) = 0 \/ Dot(op.vecB, op.vecB) = 0

\* C20: cosineSimilarity never gives NaN, and gives exactly 0 when either vector
\* is empty, the lengths differ, or a vector has zero norm.
C20_DegenerateIsZero ==
  SimilarityApplied =>
    /\ ~result.value.nan
    /\ DegenerateVectors => result.value = ZeroSimilarity

\* the search was answered by the keyword fallback
KeywordAnswered ==
  /\ op.name = "semanticSearch" /\ op.phase = "keyword"
  /\ result.status = "returned"

\* the candidates, by position, that the words of a query select: those whose
\* lowercased text holds a word of more than 2 characters of the lowercased
\* query, or all of them when the query has no such word
Selected(query, items) ==
  LET tokens == {w \in split(toLowerCase(query)) : Len(w) > 2} IN
  {i \in 1..Len(items) :
     tokens = {} \/ \E w \in tokens : includes(toLowerCase(items[i].text), w)}

\* positions is the first `limit` members of the set selected, in ascending order
FirstOf(positions, selected, limit) ==
  /\ \A i \in 1..Len(positions) : positions[i] \in selected
  /\ \A i \in 1..(Len(positions) - 1) : positions[i] < positions[i + 1]
  /\ Len(positions) = IF Cardinality(selected) < limit THEN Cardinality(selected) ELSE limit
  /\ \A i \in selected :
       (\A k \in 1..Len(positions) : positions[k] # i) =>
          \A k \in 1..Len(positions) : positions[k] < i

\* C21 as stated: the keyword fallback returns the first `limit` candidates, in
\* candidate order, that the words of the query select.
C21_KeywordMatchOfQuery ==
  KeywordAnswered =>
    FirstOf(result.value.items,
            Selected(SearchInputs[op.input].query, SearchInputs[op.input].items),
            SearchInputs[op.input].limit)

\* C21: the keyword fallback returns the first `limit` candidates, in candidate
\* order, that the words of the query cut at 500 characters select, the marker
\* that the cut appends being one of the words.
C21_KeywordMatchOfCappedQuery ==
  KeywordAnswered =>
    FirstOf(result.value.items,
            Selected(truncateText(SearchInputs[op.input].query, MaxQueryLength),
                     SearchInputs[op.input].items),
            SearchInputs[op.input].limit)

\* the query "bug" over "buy milk", "call mom", "fix the bug" gave the third
\* candidate alone
C21_Witness ==
  /\ KeywordAnswered
  /\ op.input = 1
  /\ result.value.items = <<3>>

TruncateApplied ==
  op.name = "truncateText" /\ result.status = "returned"

\* C22: truncateText(T, N), N >= 0, has at most N + 3 characters, and is T
\* itself whenever T has at most N characters.
C22_TruncateBound ==
  TruncateApplied =>
    /\ Len(result.value.chars) <= op.maxLength + Len(Ellipsis)
    /\ Len(op.text) <= op.maxLength => result.value.chars = op.text

\* a text longer than N came back as N + 3 characters, and N can be 0
C22_Witness ==
  /\ TruncateApplied
  /\ op.maxLength = 0 /\ Len(op.text) > 0
  /\ result.value.chars = Ellipsis

\* the message of a structured error advises a wait: it matches
\* 'try again in <seconds>s'
AdvisesWait(message) ==
  Includes(message, "try again in") /\ message.wait # <<>>

\* C29: the delay before retry number k is the wait the provider advised, in
\* milliseconds, whenever the error message advises one, whatever the number,
\* and 1000 * 2^k (k the attempt counter) only when it advises none.
C29_DelayIsAdvisedWait ==
  req.state = "timer" =>
    /\ obs.heard.kind = "error"
    /\ req.waitTime = IF AdvisesWait(obs.heard.message)
                        THEN ceilMilliseconds(obs.heard.message.wait)
                        ELSE BackoffBaseMs * Pow2(req.retryCount)

\* the last attempt ended in a structured error that is not retry-eligible
IneligibleErrorHeard ==
  /\ obs.heard.kind = "error"
  /\ ~(isRateLimitError(ApiErrorMessage(obs.heard.message)) /\ obs.heard.retryCount < maxRetries)

\* C30: a structured provider error that is not retry-eligible (no rate-limit
\* vocabulary, or attempt counter 3) rejects the chain at that attempt with the
\* provider's message unchanged ('API error' when the provider sent none), and
\* no retry is scheduled.
C30_IneligibleErrorRejectedVerbatim ==
  IneligibleErrorHeard =>
    /\ obs.gateway.status = "rejected"
    /\ obs.gateway.provider = obs.heard.provider
    /\ obs.gateway.retryCount = obs.heard.retryCount
    /\ obs.gateway.error.message =
         (IF obs.heard.message = AbsentMessage THEN Message("API error", {}, <<>>)
          ELSE obs.heard.message)
    /\ req.state = "none"
    /\ result.status \in {"returned", "threw"}

\* after three retries the fourth rate-limit error was rejected as it came, and
\* the caller of chatCompletion got it
C30_Witness ==
  /\ IneligibleErrorHeard
  /\ obs.heard.retryCount = maxRetries
  /\ obs.heard.message = RateLimitPlainMessage
  /\ op.name = "chatCompletion"
  /\ result.status = "threw" /\ result.error.message = RateLimitPlainMessage

\* the last attempt ended in a failed connection or in a body that is not JSON
FailureHeard == obs.heard.kind \in {"transport", "unparseable"}

\* C31: a transport failure or an unparseable body, at whatever attempt counter,
\* rejects the chain at that attempt with the transport or parse error; no timer
\* is set and the chain issues no further request.
C31_FailureNotRetried ==
  FailureHeard =>
    /\ obs.gateway.status = "rejected"
    /\ obs.gateway.provider = obs.heard.provider
    /\ obs.gateway.retryCount = obs.heard.retryCount
    /\ obs.gateway.error = (IF obs.heard.kind = "transport"
                              THEN TransportError(obs.heard.provider)
                              ELSE ParseError(obs.heard.provider))
    /\ req.state = "none"
    /\ obs.chain = obs.heard.retryCount + 1
    /\ result.status \in {"returned", "threw"}

\* the connection failed at the second retry of a rate-limited request, and the
\* caller of chatCompletion got the transport error
C31_Witness ==
  /\ obs.heard.kind = "transport"
  /\ obs.heard.retryCount = 2
  /\ obs.retried
  /\ op.name = "chatCompletion"
  /\ result.status = "threw" /\ result.error = TransportError(obs.heard.provider)

\* the search was answered by the LLM ranking
RankingAnswered ==
  /\ op.name = "semanticSearch" /\ op.phase = "llm"
  /\ result.status = "returned"

\* the numbers of a response that name one of the first MAX_SEARCH_ITEMS
\* candidates, in the order of the response
ValidNumbers(response, items) ==
  LET cap == IF Len(items) < MAX_SEARCH_ITEMS THEN Len(items) ELSE MAX_SEARCH_ITEMS
      Valid(n) == 1 <= n /\ n <= cap
  IN SelectSeq(matchNumbers(response, FALSE, 0), Valid)

\* C32: the LLM ranking returns the candidates named by the first `limit`
\* numbers of the response that lie within the capped candidate list, in the
\* order of the response: each is one of the first 10 candidates, and there are
\* at most `limit` of them.
C32_RankingKeepsValidNumbers ==
  RankingAnswered =>
    LET valid == ValidNumbers(obs.gateway.content.chars, SearchInputs[op.input].items)
        limit == SearchInputs[op.input].limit
        positions == result.value.items
    IN /\ Len(positions) = (IF Len(valid) < limit THEN Len(valid) ELSE limit)
       /\ positions = SubSeq(valid, 1, Len(positions))
       /\ \A k \in 1..Len(positions) :
            /\ positions[k] >= 1
            /\ positions[k] <= MAX_SEARCH_ITEMS
            /\ positions[k] <= Len(SearchInputs[op.input].items)

\* the model named the eleventh candidate and three of the first ten: of four
\* candidates and a limit of 2, the first two valid numbers were kept
C32_Witness ==
  /\ RankingAnswered
  /\ obs.gateway.content.chars = <<"1", "1", ",", "2", ",", "1", ",", "3">>
  /\ op.input = 2
  /\ result.value.items = <<2, 1>>

\* C33: truncating again what truncateText(T, N) returned, with the same N,
\* returns it unchanged: no second marker, no shorter prefix.
C33_TruncateIdempotent ==
  TruncateApplied =>
    truncateText(result.value.chars, op.maxLength) = result.value.chars

\* a text that was cut: what came back is longer than N, and is still returned
\* as it is
C33_Witness ==
  /\ TruncateApplied
  /\ op.maxLength > 0 /\ Len(op.text) > op.maxLength
  /\ Len(result.value.chars) = op.maxLength + Len(Ellipsis)
  /\ truncateText(result.value.chars, op.maxLength) = result.value.chars

----------------------------------------------------------------------------
(* Properties of the main process *)

\* C23: whatever additions, deletions, clears, paste reorders of the window
\* and settings changes have happened, the history of the main process holds at
\* most MAX_HISTORY items
C23_HistoryBounded == Len(clipboardHistory) <= MAX_HISTORY

\* a text copied for the first time has entered a history that was full, and
\* the history is full still
C23_Witness ==
  /\ Len(clipboardHistory) = MAX_HISTORY
  /\ clipboardHistory[1].text = <<"a">>
  /\ clipboardHistory[MAX_HISTORY].id # toString(1)

\* the texts of the history
Texts(h) == {h[i].text : i \in 1..Len(h)}

\* C24: the history never holds two entries with the same text
C24_NoRepeatedText == Cardinality(Texts(clipboardHistory)) = Len(clipboardHistory)

\* a step in which an addToHistory call that was suspended runs on
Resumed == pending' # pending /\ Len(pending') <= Len(pending)

\* C25: an addToHistory call that runs on while isPrivateMode is true leaves the
\* history as it is
C25_NothingAddedInPrivateMode ==
  [][(isPrivateMode /\ Resumed) => clipboardHistory' = clipboardHistory]_vars

\* C26: between stopMonitoring and the next startMonitoring, an addToHistory
\* call that runs on leaves the history as it is
C26_NothingAddedWhilePaused ==
  [][(~isMonitoring /\ Resumed) => clipboardHistory' = clipboardHistory]_vars

\* C27: while settings.encryptionEnabled is true the plaintext history file is
\* absent or holds no item
C27_NoPlaintextUnderEncryption ==
  settings.encryptionEnabled => ~(disk.plain.exists /\ disk.plain.history # <<>>)

\* C28: a step taken while settings.inMemoryOnly is true leaves the plaintext
\* and the encrypted history file as they are
C28_MemoryOnlyWritesNothing ==
  [][settings.inMemoryOnly => (disk.plain' = disk.plain /\ disk.encrypted' = disk.encrypted)]_vars

\* the history has changed in memory-only mode while a file holds another one
C28_Witness ==
  /\ settings.inMemoryOnly
  /\ clipboardHistory # <<>>
  /\ disk.encrypted.exists
  /\ disk.encrypted.history # clipboardHistory

\* a step of pasteItem that reorders: the window's copy of the history changes
\* and no 'history-updated' message is consumed or sent
PasteReorder == history' # history /\ inbox' = inbox

\* C39: an item that addToHistory has put in the history is not removed by a
\* paste of the window: in every interleaving of the polling with the reorder
\* of pasteItem ('update-history' with the window's copy), every item of the
\* main process's history before the reorder is in its history after it
C39_PasteLosesNoItem ==
  [][PasteReorder =>
       \A i \in 1..Len(clipboardHistory) :
         \E j \in 1..Len(clipboardHistory') :
           clipboardHistory'[j].id = clipboardHistory[i].id]_vars

-----------------------------------------------------------------------------
(* Properties of the chat assistant and of the AI handlers *)

\* C35: for each message the clipboard monitoring of the chat assistant
\* detects, the callback registered by startChatAssistant is invoked at most
\* once, so at most one reply is sent automatically for it
C35_CallbackOncePerMessage == seen.calls <= 1 /\ seen.sent <= 1

\* C36: with automatic sending on, a reply that sendReply has written to the
\* clipboard is never taken for a new incoming message: handleNewMessage never
\* asks for a reply to a text that sendReply wrote
C36_OwnReplyNotDetected ==
  \A i \in 1..Len(tasks) : tasks[i].stage = "generateReply" => ~tasks[i].own

\* the key of provider p in the settings
settingsKey(s, p) == IF p = "groq" THEN s.groqApiKey ELSE s.openaiApiKey

\* C37: once the user has cleared a provider's key in the settings (an empty
\* key, or AI switched off), no request issued afterwards to that provider
\* carries a key
C37_ClearedKeyNotSent ==
  [][\A p \in Providers :
       (obs'.http[p] > obs.http[p] /\ ~Truthy(settingsKey(settings, p))) => ~Truthy(req'.key)]_vars

\* C38: while settings.aiEnabled is false no request is issued to a provider,
\* by the AI handlers or by the chat assistant, whenever its monitoring started
C38_NoRequestWhileDisabled ==
  [][\A p \in Providers : obs'.http[p] > obs.http[p] => settings.aiEnabled]_vars

\* C40: the clipboard monitoring asks for a reply only when the active
\* application matches an entry of the watch list, whatever the list holds,
\* the empty list included
C40_ReplyOnlyForWatchedApp ==
  \A i \in 1..Len(tasks) : tasks[i].stage = "generateReply" => tasks[i].matched


=============================================================================
